---- MODULE Spec2Model ----
(***************************************************************************)
(* TuneNote: the detection goroutine of cmd/main.go, the FFT pitch         *)
(* detector of internal/pitch, the PortAudio capturer's latest-frame       *)
(* buffer and the Bubble Tea UI model of internal/ui.                      *)
(*                                                                         *)
(* Fixed point.  The program computes in float32/float64; the model holds  *)
(*   - samples in units of 1/1000 of full scale,                           *)
(*   - levels in whole decibels, rounded down,                             *)
(*   - spectrum magnitudes in units of 1/100,                              *)
(*   - frequencies in units of 1/100 Hz,                                   *)
(*   - time in ticks of 10 ms.                                             *)
(* A sample buffer is a sequence of runs: each element is the magnitude    *)
(* |s| shared by RunLen consecutive samples.  The level gate reads only    *)
(* s*s and |s|; the signs, which only the transform reads, are carried by  *)
(* the magnitude spectrum that fft.FFT returns for the frame.              *)
(***************************************************************************)
EXTENDS Integers, Sequences, FiniteSets, TLC

\* ------------------------------------------------------------ constants
bufferSize == 4096
sampleRate == 44100
minSamples == 512
amplificationLevel == 8
\* time.Millisecond*200, 300*time.Millisecond, 80*time.Millisecond in ticks
debugInterval == 20
stabilizationDelay == 30
emitInterval == 8
\* time.Sleep(10ms) and time.Sleep(50ms) in ticks
shortSleep == 1
longSleep == 5
\* dB thresholds of the detection loop
onsetJumpDb == 3
onsetFloorDb == -40
silenceDb == -30
initialDb == -100
\* FFTDetector fields (NewFFTDetector), in model units
minFrequency == 8000
maxFrequency == 120000
noiseFloor == 1
peakThresholdPct == 20
volumeThreshold == 5
detectFloorDb == -50
defaultFrequency == 44000
a4Frequency == 44000

\* Samples per run of a buffer delivered by the capture callback.
RunLen == bufferSize \div 2

\* ------------------------------------------------------------ arithmetic
RECURSIVE Pow10(_)
Pow10(e) == IF e <= 0 THEN 1 ELSE 10 * Pow10(e - 1)

RECURSIVE Pow2(_)
Pow2(e) == IF e <= 0 THEN 1 ELSE 2 * Pow2(e - 1)

Abs(x) == IF x < 0 THEN -x ELSE x

Range(f) == {f[i] : i \in DOMAIN f}

\* the element of a one-element set: {F(x) : x \in {e}} works e out once
Only(S) == CHOOSE x \in S : TRUE

Max(S) == Only({CHOOSE x \in T : \A y \in T : y <= x : T \in {S}})

RECURSIVE SumSq(_)
SumSq(s) == IF s = <<>> THEN 0 ELSE Head(s) * Head(s) + SumSq(Tail(s))

RECURSIVE PeakOf(_)
PeakOf(s) ==
    IF s = <<>> THEN 0
    ELSE LET rest == PeakOf(Tail(s))
         IN  IF Abs(Head(s)) > rest THEN Abs(Head(s)) ELSE rest

\* 100 * 10^(k/10) for k = 0..9: one decade of the decibel scale.
DecibelDecade == <<100, 126, 158, 200, 251, 316, 398, 501, 631, 794>>

\* meanSq1000 (mean square, in units of 1e-9) >= 10^(d/10), d in -90..0
AtLeastDb(meanSq1000, d) ==
    LET x == d + 90
        e == x \div 10
        k == x % 10
    IN  IF e >= 2
        THEN meanSq1000 >= Pow10(e - 2) * DecibelDecade[k + 1]
        ELSE \/ meanSq1000 >= 1000
             \/ meanSq1000 * Pow10(2 - e) >= DecibelDecade[k + 1]

\* floor(20*log10(rms)) for rms > 0.0000001, else -100.  A non-zero buffer of
\* the model has rms >= 0.0005, so "rms > 0.0000001" is "meanSq > 0".
Log10Db(meanSq1000) ==
    Only({IF m = 0 THEN initialDb
          ELSE Max({d \in -90..0 : AtLeastDb(m, d)} \cup {-90}) :
          m \in {meanSq1000}})

\* floor(sqrt(x))
Sqrt(x) ==
    Only({CHOOSE r \in 0..1000 : r * r <= y /\ (r + 1) * (r + 1) > y : y \in {x}})

\* ------------------------------------------------------------ frames
\* audio.AudioBuffer: Samples (runs of magnitudes), SampleRate; spectrum is
\* what fft.FFT yields for the Hann-windowed samples: magnitude `base` in
\* every bin except those of `bumps`.
NilBuffer == [nil |-> TRUE]

Buffer(runs, spectrum) ==
    [nil |-> FALSE, Samples |-> runs, SampleRate |-> sampleRate,
     spectrum |-> spectrum]

NumSamples(buffer) == Len(buffer.Samples) * RunLen

MeanSq1000(buffer) == (SumSq(buffer.Samples) * 1000) \div Len(buffer.Samples)

Magnitude(spectrum, i) ==
    IF i \in DOMAIN spectrum.bumps THEN spectrum.bumps[i] ELSE spectrum.base

\* ------------------------------------------------------------ pitch: notes
noteNames == <<"C", "C#", "D", "D#", "E", "F", "F#", "G", "G#", "A", "A#", "B">>

\* 10000 * 2^(s/12) for s = 0..11: one octave in semitones.
SemitoneRatios ==
    <<10000, 10595, 11225, 11892, 12599, 13348,
      14142, 14983, 15874, 16818, 17818, 18877>>

\* 10000 * 2^(c/1200) for c = 0..99: one semitone in cents.
CentRatios ==
    <<10000, 10006, 10012, 10017, 10023, 10029, 10035, 10041, 10046, 10052,
      10058, 10064, 10070, 10075, 10081, 10087, 10093, 10099, 10105, 10110,
      10116, 10122, 10128, 10134, 10140, 10145, 10151, 10157, 10163, 10169,
      10175, 10181, 10187, 10192, 10198, 10204, 10210, 10216, 10222, 10228,
      10234, 10240, 10246, 10251, 10257, 10263, 10269, 10275, 10281, 10287,
      10293, 10299, 10305, 10311, 10317, 10323, 10329, 10335, 10341, 10347,
      10353, 10359, 10365, 10371, 10377, 10383, 10389, 10395, 10401, 10407,
      10413, 10419, 10425, 10431, 10437, 10443, 10449, 10455, 10461, 10467,
      10473, 10479, 10485, 10491, 10497, 10503, 10509, 10515, 10521, 10528,
      10534, 10540, 10546, 10552, 10558, 10564, 10570, 10576, 10582, 10589>>

\* frequency (1/100 Hz) >= 440 * 2^(o + s/12 + c/1200)
AtLeastPitch(frequency, o, s, c) ==
    LET ratio == (SemitoneRatios[s + 1] * CentRatios[c + 1]) \div 10000
    IN  IF o >= 0
        THEN frequency * 10 >= 44 * Pow2(o) * ratio
        ELSE frequency * 10 * Pow2(-o) >= 44 * ratio

\* 12 * math.Log2(frequency/440.0) in whole cents (1/100 semitone) rounded
\* down, for frequencies from 13.75 Hz up
Semitones(frequency) ==
    Only({Only({Only({1200 * o + 100 * s + c :
                        c \in {Max({c \in 0..99 : AtLeastPitch(frequency, o, s, c)})}}) :
                  s \in {Max({s \in 0..11 : AtLeastPitch(frequency, o, s, 0)})}}) :
            o \in {Max({o \in -5..3 : AtLeastPitch(frequency, o, 0, 0)} \cup {-5})}})

\* math.Floor in the place of math.Round
RoundDown(hundredths) == hundredths \div 100

\* math.Round of a value given in hundredths: to the nearest integer, halves
\* away from zero.  A frequency the samples can give never sits on a half
\* (2^(1/24) is irrational), so a rounded-down -50 stands for a value above it.
Round(hundredths) == (hundredths + 50) \div 100

RoundedSemitones(frequency) ==
    Only({Round(semitones) : semitones \in {Semitones(frequency)}})

\* 100 * (semitones - roundedSemitones), in whole cents rounded down
CentsOf(frequency, r) ==
    Only({semitones - 100 * r : semitones \in {Semitones(frequency)}})

\* the octave taken with int(...) alone, which truncates toward zero
NoteAtTruncatedOctave(frequency, roundedSemitones) ==
    LET rem == (roundedSemitones + 9) % 12
        octave == 4 + (IF roundedSemitones + 9 >= 0
                       THEN (roundedSemitones + 9) \div 12
                       ELSE -((-(roundedSemitones + 9)) \div 12))
    IN  [Name |-> noteNames[rem + 1], Octave |-> octave,
         Frequency |-> frequency, Cents |-> CentsOf(frequency, roundedSemitones)]

NoteAt(frequency, roundedSemitones) ==
    LET cents == CentsOf(frequency, roundedSemitones)
        \* int(math.Mod(r+9, 12)) truncates toward zero; negative results get +12
        rem == IF roundedSemitones + 9 >= 0
               THEN (roundedSemitones + 9) % 12
               ELSE -((-(roundedSemitones + 9)) % 12)
        noteIndex == IF rem < 0 THEN rem + 12 ELSE rem
        octave == 4 + ((roundedSemitones + 9) \div 12)
    IN  [Name |-> noteNames[noteIndex + 1], Octave |-> octave,
         Frequency |-> frequency, Cents |-> cents]

frequencyToNote(frequency) ==
    Only({NoteAt(frequency, r) : r \in {RoundedSemitones(frequency)}})

\* ------------------------------------------------------------ pitch: errors
NoError == [id |-> "nil", msg |-> ""]
ErrEmptyBuffer == [id |-> "pitch.ErrEmptyBuffer", msg |-> "empty audio buffer"]
ErrVolumeThreshold == [id |-> "pitch.ErrVolumeThreshold", msg |-> "volume below threshold"]
\* the value errors.New builds inside DefaultDetector.DetectPitch
DefaultEmptyError == [id |-> "errors.New in DefaultDetector.DetectPitch", msg |-> "empty audio buffer"]

NoNote == [Name |-> "", Octave |-> 0, Frequency |-> 0, Cents |-> 0]
Rejected(err) == [ok |-> FALSE, note |-> NoNote, err |-> err]
Detected(note) == [ok |-> TRUE, note |-> note, err |-> NoError]

\* ------------------------------------------------------------ pitch: peaks
\* the low bin without "if minBin < 1 { minBin = 1 }"
MinBinUnclamped(n, rate) == (minFrequency * n) \div (rate * 100)

MinBin(n, rate) ==
    LET b == (minFrequency * n) \div (rate * 100)
    IN  IF b < 1 THEN 1 ELSE b

MaxBin(n, rate) ==
    LET b == (maxFrequency * n) \div (rate * 100)
    IN  IF b >= n \div 2 THEN (n \div 2) - 1 ELSE b

MaxMagnitude(spectrum, lo, hi) ==
    Max({Magnitude(spectrum, i) : i \in lo..hi} \cup {0})

\* a peak test that lets a bin equal to the next one through
IsPeakOrPlateau(spectrum, i, maxMagnitude) ==
    /\ Magnitude(spectrum, i) > Magnitude(spectrum, i - 1)
    /\ Magnitude(spectrum, i) >= Magnitude(spectrum, i + 1)
    /\ Magnitude(spectrum, i) * 100 > maxMagnitude * peakThresholdPct

IsPeak(spectrum, i, maxMagnitude) ==
    /\ Magnitude(spectrum, i) > Magnitude(spectrum, i - 1)
    /\ Magnitude(spectrum, i) > Magnitude(spectrum, i + 1)
    /\ Magnitude(spectrum, i) * 100 > maxMagnitude * peakThresholdPct

\* Peak{Bin, Magnitude, Frequency} with the quadratic interpolation
PeakAt(spectrum, i, n, rate) ==
    LET prev == Magnitude(spectrum, i - 1)
        current == Magnitude(spectrum, i)
        next == Magnitude(spectrum, i + 1)
        denom == prev - 2 * current + next
        binFreq == (i * rate * 100) \div n
        binSizeHz == (rate * 100) \div n
    IN  [Bin |-> i, Magnitude |-> current,
         Frequency |-> IF denom # 0
                       THEN binFreq + ((next - prev) * binSizeHz) \div (2 * (-denom))
                       ELSE binFreq]

\* sort.Slice by magnitude, descending, then peaks[0].  sort.Slice is not
\* stable: peaks of equal magnitude end in any order, so peaks[0] is any one
\* of the peaks of the greatest magnitude.
TopPeaks(peaks) == {p \in peaks : \A q \in peaks : q.Magnitude <= p.Magnitude}

\* peaks[0] where one peak is greater than all others, as in every frame
\* the capturer and the detector frames below hold
TopPeak(peaks) == Only(TopPeaks(peaks))

\* a peak loop that runs from minBin to maxBin
BandPeaksWithEdges(spectrum, n, rate) ==
    LET minBin == MinBin(n, rate)
        maxBin == MaxBin(n, rate)
    IN  UNION {IF maxMagnitude < noiseFloor THEN {}
               ELSE {PeakAt(spectrum, i, n, rate) :
                       i \in {j \in minBin..maxBin :
                                 IsPeak(spectrum, j, maxMagnitude)}} :
               maxMagnitude \in {MaxMagnitude(spectrum, minBin, maxBin)}}

\* the peaks slice: nothing when the in-band maximum is under the noise
\* floor, else every bin that passes the three peak conditions
BandPeaks(spectrum, n, rate) ==
    LET minBin == MinBin(n, rate)
        maxBin == MaxBin(n, rate)
    IN  UNION {IF maxMagnitude < noiseFloor THEN {}
               ELSE {PeakAt(spectrum, i, n, rate) :
                       i \in {j \in (minBin + 1)..(maxBin - 1) :
                                 IsPeak(spectrum, j, maxMagnitude)}} :
               maxMagnitude \in {MaxMagnitude(spectrum, minBin, maxBin)}}

\* every value findFundamentalFrequency can return
FundamentalFrequencies(spectrum, n, rate) ==
    UNION {IF peaks = {} THEN {defaultFrequency}
           ELSE {p.Frequency : p \in TopPeaks(peaks)} :
           peaks \in {BandPeaks(spectrum, n, rate)}}

\* the indices of spectrumHalf the two loops read: every bin of the maximum
\* search, then for each candidate the bin, the one below and, when the bin
\* is greater than the one below, the one above
BinsRead(spectrum, n, rate) ==
    LET minBin == MinBin(n, rate)
        maxBin == MaxBin(n, rate)
    IN  (minBin..maxBin)
        \cup (IF MaxMagnitude(spectrum, minBin, maxBin) < noiseFloor THEN {}
              ELSE UNION {{i, i - 1}
                          \cup (IF Magnitude(spectrum, i) > Magnitude(spectrum, i - 1)
                                THEN {i + 1} ELSE {}) :
                          i \in (minBin + 1)..(maxBin - 1)})

\* 440.0 stands for "no peak" in both early returns
findFundamentalFrequency(spectrum, n, rate) ==
    Only({IF peaks = {} THEN defaultFrequency ELSE TopPeak(peaks).Frequency :
          peaks \in {BandPeaks(spectrum, n, rate)}})

\* ------------------------------------------------------------ pitch: detectors
Rms(buffer) == Sqrt(MeanSq1000(buffer) \div 1000)

DbLevel(buffer) == Log10Db(MeanSq1000(buffer))

\* the first gate: rmsVolume < volumeThreshold || dbLevel < -50.0
LevelTooLow(buffer) ==
    Rms(buffer) < volumeThreshold \/ DbLevel(buffer) < detectFloorDb

\* a gate that forgets the factor 2
PeakUnderThreshold(buffer) == PeakOf(buffer.Samples) < volumeThreshold

\* the second gate: peakValue < volumeThreshold*2
PeakTooLow(buffer) == PeakOf(buffer.Samples) < volumeThreshold * 2

\* a gate placed inside the rmsVolume > 0.0000001 block
GateInsideLogGuard(buffer) ==
    Rms(buffer) > 0 /\ (LevelTooLow(buffer) \/ PeakTooLow(buffer))

\* the two returns of ErrVolumeThreshold ahead of applyHannWindow
GateRejects(buffer) == LevelTooLow(buffer) \/ PeakTooLow(buffer)

\* a band check that looks at the upper end only
OutOfBandAbove(peakFreq) == peakFreq > maxFrequency

OutOfBand(peakFreq) == peakFreq < minFrequency \/ peakFreq > maxFrequency

IsEmpty(buffer) == buffer.nil \/ Len(buffer.Samples) = 0

FFTDetectPitch(buffer) ==
    IF IsEmpty(buffer) THEN Rejected(ErrEmptyBuffer)
    ELSE IF GateRejects(buffer) THEN Rejected(ErrVolumeThreshold)
    ELSE Only({IF OutOfBand(peakFreq) THEN Rejected(ErrVolumeThreshold)
               ELSE Detected(frequencyToNote(peakFreq)) :
               peakFreq \in {findFundamentalFrequency(buffer.spectrum, NumSamples(buffer),
                                                      buffer.SampleRate)}})

DefaultDetectPitch(buffer) ==
    IF IsEmpty(buffer) THEN Rejected(DefaultEmptyError)
    ELSE Detected(frequencyToNote(a4Frequency))

DetectPitch(detector, buffer) ==
    IF detector = "FFTDetector" THEN FFTDetectPitch(buffer)
    ELSE DefaultDetectPitch(buffer)

\* ------------------------------------------------------------ bounds
\* callbacks the audio device delivers in one run
MaxCallbacks == 2
\* messages the UI channel holds before p.Send blocks
MaxQueue == 2
\* ticks the scheduler may hold the goroutine back after its sleep ends
MaxLate == 1
\* runs of samples in a frame handed straight to a detector
MaxRuns == 2
MaxOctave == 2
\* bins in the lower half of a spectrum handed straight to the peak search
MaxHalf == 6
\* GetBuffer calls followed statement by statement
MaxGets == 2
\* Start, Stop and GetBuffer calls made on a capturer on its own
MaxCalls == 4

\* ------------------------------------------------------------ inputs
NoSpectrum == [base |-> 0, bumps |-> <<>>]
\* 440 Hz and 659 Hz tones in a 4096-point transform at 44100 Hz, a flat
\* spectrum with no local maximum, a 3230 Hz tone, which leaves the
\* bins of the pitch band under the noise floor, and a 76 Hz tone in a
\* 2048-point transform: its peak is bin 4, the first the peak loop looks
\* at, and the interpolation puts it under 80 Hz
ToneA == [base |-> 0, bumps |-> (40 :> 125 @@ 41 :> 312 @@ 42 :> 112)]
ToneE == [base |-> 0, bumps |-> (60 :> 100 @@ 61 :> 312 @@ 62 :> 150)]
Flat == [base |-> 6, bumps |-> <<>>]
OutOfBandTone == [base |-> 0, bumps |-> (299 :> 100 @@ 300 :> 312 @@ 301 :> 100)]
LowEdgeTone == [base |-> 0, bumps |-> (3 :> 300 @@ 4 :> 312)]

Input(level, spectrum) == [Samples |-> <<level, level>>, spectrum |-> spectrum]

\* what the device hands to the callback: silence, a tone too quiet for the
\* silence floor, a tone, and 6 dB above it a tone above the pitch band
Silence == Input(0, NoSpectrum)
Inputs == {Silence, Input(3, ToneA), Input(6, ToneA), Input(12, OutOfBandTone)}
\* silence and a steady tone
ToneInputs == {Silence, Input(6, ToneA)}

\* Frames handed straight to a detector: nil, no samples, and runs of
\* these magnitudes; all-zero samples transform to the zero spectrum.
DetectLevels == {0, 4, 7, 10, 50}
DetectSpectra == {ToneA, ToneE, Flat, OutOfBandTone, LowEdgeTone}
RunsUpTo(n) == UNION {[1..k -> DetectLevels] : k \in 1..n}
DetectFrames ==
    {NilBuffer, Buffer(<<>>, NoSpectrum)}
    \cup {Buffer(r, NoSpectrum) : r \in {q \in RunsUpTo(MaxRuns) : SumSq(q) = 0}}
    \cup {Buffer(r, sp) : r \in {q \in RunsUpTo(MaxRuns) : SumSq(q) # 0},
                          sp \in DetectSpectra}
Detectors == {"FFTDetector", "DefaultDetector"}

\* ------------------------------------------------------------ state
VARIABLES
    isCapturing,          \* PortAudioCapturer.isCapturing
    buffer,               \* PortAudioCapturer.buffer
    amplification,        \* PortAudioCapturer.amplification
    callbacks,            \* callbacks delivered so far
    sinceLastDebugTime,   \* time.Since(lastDebugTime), saturated
    sinceLastNoteTime,    \* time.Since(lastNoteTime), saturated
    isVolumeRising,
    sinceVolumeRiseTime,  \* time.Since(volumeRiseTime), saturated
    lastDB,
    sleep,                \* ticks left of the goroutine's time.Sleep
    late,                 \* ticks the goroutine is overdue
    msgs,                 \* the tea.Program message channel
    model,                \* ui.Model
    program,              \* tea.Program and the process: running, quit, exited
    bufferMutex,          \* PortAudioCapturer.bufferMutex: who holds it
    pc,                   \* where processAudio and GetBuffer stand, statement by statement
    heap,                 \* the AudioBuffer structs and sample arrays they allocate
    iter,                 \* what the last loop iteration did
    hist                  \* clocks and marks the properties read

vars == <<isCapturing, buffer, amplification, callbacks, sinceLastDebugTime,
          sinceLastNoteTime, isVolumeRising, sinceVolumeRiseTime, lastDB,
          sleep, late, msgs, model, program, bufferMutex, pc, heap, iter, hist>>

capturerVars == <<isCapturing, buffer, amplification, callbacks>>
loopVars == <<sinceLastDebugTime, sinceLastNoteTime, isVolumeRising,
              sinceVolumeRiseTime, lastDB, sleep, late, iter>>

lockVars == <<bufferMutex, pc, heap>>

\* No call of processAudio or GetBuffer is under way, nothing is allocated.
IdleThreads ==
    [cb |-> "idle", cbIn |-> <<>>, cbI |-> 0,
     gb |-> "idle", gbCopy |-> 0, gbSrc |-> 0, gbI |-> 0, gets |-> 0,
     got |-> 0, snapshot |-> <<>>, expected |-> <<>>, stored |-> <<>>, later |-> FALSE]

EmptyHeap == [structs |-> <<>>, arrays |-> <<>>]

Unlocked == bufferMutex = "free" /\ pc = IdleThreads /\ heap = EmptyHeap

Saturate(c, cap) == IF c >= cap THEN cap ELSE c

\* ------------------------------------------------------------ audio
\* processAudio, channels = 1: every sample times the amplification
Amplify(in, factor) ==
    Buffer([i \in 1..Len(in.Samples) |-> in.Samples[i] * factor],
           [base |-> in.spectrum.base * factor,
            bumps |-> [b \in DOMAIN in.spectrum.bumps |-> in.spectrum.bumps[b] * factor]])

\* The loop reads the buffer only in GetBuffer, so a callback that arrives
\* during its sleep is taken when the sleep has ended.
processAudio(in) ==
    /\ isCapturing
    /\ callbacks < MaxCallbacks
    /\ sleep = 0
    /\ buffer' = Amplify(in, amplification)
    /\ callbacks' = callbacks + 1
    /\ UNCHANGED <<program, lockVars, isCapturing, amplification, loopVars, msgs, model, hist>>

\* GetBuffer: an error while not capturing, else a copy of the buffer
GetBuffer ==
    IF ~isCapturing THEN [ok |-> FALSE, buffer |-> NilBuffer]
    ELSE [ok |-> TRUE, buffer |-> buffer]

\* getAudioLevel
getAudioLevel(b) ==
    IF b.nil \/ Len(b.Samples) = 0 THEN [rms |-> 0, db |-> initialDb]
    ELSE [rms |-> Rms(b), db |-> Log10Db(MeanSq1000(b))]

\* the frame's peaks slice is empty
NoPeak(b) ==
    ~IsEmpty(b) /\ BandPeaks(b.spectrum, NumSamples(b), b.SampleRate) = {}

\* ------------------------------------------------------------ ui
UpdateNoteMsg(note) == [type |-> "UpdateNoteMsg", note |-> note, rms |-> 0, db |-> 0]
ClearNoteMsg == [type |-> "ClearNoteMsg", note |-> NoNote, rms |-> 0, db |-> 0]
UpdateAudioLevelMsg(rms, db) ==
    [type |-> "UpdateAudioLevelMsg", note |-> NoNote, rms |-> rms, db |-> db]
\* tea.KeyMsg by its String(), tea.WindowSizeMsg and the ticker's TickMsg
KeyMsg(key) == [type |-> "tea.KeyMsg", key |-> key]
WindowSizeMsg(width, height) ==
    [type |-> "tea.WindowSizeMsg", Width |-> width, Height |-> height]
TickMsg == [type |-> "TickMsg"]

maxTimelineEntries == 50

\* NewModel.  currentNote = NoNote is the nil pointer.  lastUpdate,
\* silenceSince and the entries' Timestamp are written and never read.
NewModel ==
    [currentNote |-> NoNote, timeline |-> <<>>, isSilence |-> TRUE,
     audioRMS |-> 0, audioDB |-> 0, showDebug |-> TRUE, width |-> 0, height |-> 0]

SameNote(a, b) == a.Name = b.Name /\ a.Octave = b.Octave

\* a trim that keeps the oldest entries
TrimNewestDropped(timeline) ==
    IF Len(timeline) > maxTimelineEntries
    THEN SubSeq(timeline, 1, maxTimelineEntries)
    ELSE timeline

Trim(timeline) ==
    IF Len(timeline) > maxTimelineEntries
    THEN SubSeq(timeline, Len(timeline) - maxTimelineEntries + 1, Len(timeline))
    ELSE timeline

\* a Note handler that leaves the silence mark as it is
UpdateNoteKeepsSilence(m, note) ==
    LET addToTimeline == ~(m.currentNote # NoNote /\ SameNote(note, m.currentNote))
    IN  [m EXCEPT !.currentNote = note,
                  !.timeline = IF addToTimeline THEN Trim(Append(@, note)) ELSE @]

UpdateNote(m, note) ==
    LET addToTimeline == ~(m.currentNote # NoNote /\ SameNote(note, m.currentNote))
    IN  [m EXCEPT !.isSilence = FALSE,
                  !.currentNote = note,
                  !.timeline = IF addToTimeline THEN Trim(Append(@, note)) ELSE @]

\* a handler that only sets the silence mark
MarkSilence(m) == [m EXCEPT !.isSilence = TRUE]

ClearNote(m) == [m EXCEPT !.currentNote = NoNote, !.isSilence = TRUE]

UpdateAudioLevel(m, msg) == [m EXCEPT !.audioRMS = msg.rms, !.audioDB = msg.db]

\* case tea.KeyMsg: "d" toggles the debug display, "q" and "ctrl+c" return
\* the model as it is with tea.Quit
UpdateKey(m, msg) == IF msg.key = "d" THEN [m EXCEPT !.showDebug = ~@] ELSE m

UpdateWindowSize(m, msg) == [m EXCEPT !.width = msg.Width, !.height = msg.Height]

\* Model.Update: the model it returns
Update(m, msg) ==
    CASE msg.type = "tea.KeyMsg" -> UpdateKey(m, msg)
      [] msg.type = "tea.WindowSizeMsg" -> UpdateWindowSize(m, msg)
      [] msg.type = "TickMsg" -> m
      [] msg.type = "UpdateNoteMsg" -> UpdateNote(m, msg.note)
      [] msg.type = "UpdateAudioLevelMsg" -> UpdateAudioLevel(m, msg)
      [] msg.type = "ClearNoteMsg" -> ClearNote(m)
      [] OTHER -> m

\* Model.Update: the tea.Cmd it returns
Command(msg) ==
    IF msg.type = "tea.KeyMsg" /\ msg.key \in {"q", "ctrl+c"} THEN "tea.Quit"
    ELSE IF msg.type = "TickMsg" THEN "tea.Tick"
    ELSE "nil"

\* Model.View: the box with the note's name and octave, or the grey
\* placeholder box
Placeholder == [box |-> "---", info |-> "Make a sound to see the note..."]
View(m) ==
    IF m.currentNote # NoNote
    THEN [box |-> <<m.currentNote.Name, m.currentNote.Octave>>,
          info |-> <<m.currentNote.Frequency, m.currentNote.Cents>>]
    ELSE Placeholder

\* an event loop that takes the newest message first
ReceiveNewest(q) == [msg |-> q[Len(q)], rest |-> SubSeq(q, 1, Len(q) - 1)]

\* the program's event loop takes the oldest message of the channel
Receive(q) == [msg |-> Head(q), rest |-> Tail(q)]

IsNoteOrClear(msg) == msg.type \in {"UpdateNoteMsg", "ClearNoteMsg"}

\* the display-continuity duration the specification asks for: 500 ms
displayContinuity == 50

\* what the properties read of the display when a Note or Clear is handled
Displayed(h, m, msg) ==
    LET shown == m.currentNote # NoNote
        other == msg.type = "UpdateNoteMsg" /\ shown /\ ~SameNote(m.currentNote, msg.note)
        first == msg.type = "UpdateNoteMsg" /\ ~shown
    IN  [h EXCEPT !.lastProcessed = msg,
                  !.sinceShown = IF ~h.watchDisplay THEN @
                                 ELSE IF other \/ first THEN 0
                                 ELSE IF msg.type = "ClearNoteMsg" THEN displayContinuity
                                 ELSE @,
                  !.replacedEarly = @ \/ (other /\ h.sinceShown < displayContinuity)]

UiUpdate ==
    /\ program = "running"
    /\ msgs # <<>>
    /\ LET r == Receive(msgs)
       IN  /\ model' = Update(model, r.msg)
           /\ msgs' = r.rest
           /\ hist' = IF IsNoteOrClear(r.msg)
                      THEN Displayed(hist, model, r.msg)
                      ELSE hist
    /\ UNCHANGED <<program, lockVars, capturerVars, loopVars>>

\* ------------------------------------------------------------ detection loop
enableLevelDebug == TRUE

\* a loop that sends the level on every pass
LevelDueAlways(sinceDebug) == enableLevelDebug

LevelDue(sinceDebug) == enableLevelDebug /\ sinceDebug > debugInterval

\* db > lastDB+3 && db > -40
OnsetDetected(db, last) == db > last + onsetJumpDb /\ db > onsetFloorDb

\* db < -30
IsSilent(db) == db < silenceDb

\* a loop that waits the rate limit's 80 ms instead of the delay
SettlingBriefly(rising, sinceRise) == rising /\ sinceRise < emitInterval

\* a loop that never looks at the time since the rise
SettlingForever(rising, sinceRise) == rising

\* isVolumeRising && time.Since(volumeRiseTime) < stabilizationDelay
Settling(rising, sinceRise) == rising /\ sinceRise < stabilizationDelay

\* a loop that compares with 80 nanoseconds
NoteDueAtOnce(sinceNote) == sinceNote >= 0

\* time.Since(lastNoteTime) > 80*time.Millisecond
NoteDue(sinceNote) == sinceNote > emitInterval

\* The pass from detector.DetectPitch on: res is what it returned,
\* measured the pass as it stands when it is called.
AfterDetect(measured, res) ==
    IF ~res.ok
    THEN [measured EXCEPT !.outcome = "rejected", !.detect = TRUE,
                          !.out = Append(@, ClearNoteMsg),
                          !.isVolumeRising = FALSE, !.sleepFor = longSleep]
    ELSE IF NoteDue(sinceLastNoteTime)
    THEN [measured EXCEPT !.outcome = "note", !.detect = TRUE,
                          !.out = Append(@, UpdateNoteMsg(res.note)),
                          !.sinceLastNoteTime = 0,
                          !.isVolumeRising = FALSE, !.sleepFor = longSleep]
    ELSE [measured EXCEPT !.outcome = "withheld", !.detect = TRUE,
                          !.isVolumeRising = FALSE, !.sleepFor = longSleep]

\* a pass that leaves lastDB alone on the frame that starts a rise
AfterLevelRiseUnrecorded(b, idle, level) ==
    LET db == level.db
        due == LevelDue(sinceLastDebugTime)
        levelOut == IF due THEN <<UpdateAudioLevelMsg(level.rms, db)>> ELSE <<>>
        measured == [idle EXCEPT !.measured = TRUE, !.db = db, !.rms = level.rms,
                                 !.out = levelOut,
                                 !.sinceLastDebugTime = IF due THEN 0 ELSE @,
                                 !.lastDB = db]
    IN  IF OnsetDetected(db, lastDB) /\ ~isVolumeRising
        THEN [measured EXCEPT !.outcome = "rise", !.isVolumeRising = TRUE,
                              !.sinceVolumeRiseTime = 0, !.lastDB = lastDB]
        ELSE IF IsSilent(db)
        THEN [measured EXCEPT !.outcome = "silence", !.out = Append(@, ClearNoteMsg),
                              !.isVolumeRising = FALSE, !.sleepFor = longSleep]
        ELSE IF Settling(isVolumeRising, sinceVolumeRiseTime)
        THEN [measured EXCEPT !.outcome = "settling"]
        ELSE Only({AfterDetect(measured, res) : res \in {DetectPitch("FFTDetector", b)}})

\* The pass from getAudioLevel on: level is what it returned, idle the
\* pass that has done nothing yet.
AfterLevel(b, idle, level) ==
    LET db == level.db
        due == LevelDue(sinceLastDebugTime)
        levelOut == IF due THEN <<UpdateAudioLevelMsg(level.rms, db)>> ELSE <<>>
        measured == [idle EXCEPT !.measured = TRUE, !.db = db, !.rms = level.rms,
                                 !.out = levelOut,
                                 !.sinceLastDebugTime = IF due THEN 0 ELSE @,
                                 !.lastDB = db]
    IN  IF OnsetDetected(db, lastDB) /\ ~isVolumeRising
        THEN [measured EXCEPT !.outcome = "rise", !.isVolumeRising = TRUE,
                              !.sinceVolumeRiseTime = 0]
        ELSE IF IsSilent(db)
        THEN [measured EXCEPT !.outcome = "silence", !.out = Append(@, ClearNoteMsg),
                              !.isVolumeRising = FALSE, !.sleepFor = longSleep]
        ELSE IF Settling(isVolumeRising, sinceVolumeRiseTime)
        THEN [measured EXCEPT !.outcome = "settling"]
        ELSE Only({AfterDetect(measured, res) : res \in {DetectPitch("FFTDetector", b)}})

\* One pass of the for loop on what GetBuffer returned: the messages it
\* sends, the sleep it ends with and the values it leaves in its variables.
Iteration(got) ==
    LET b == got.buffer
        idle == [outcome |-> "short", measured |-> FALSE, db |-> initialDb, rms |-> 0,
                 detect |-> FALSE, out |-> <<>>, sleepFor |-> shortSleep,
                 sinceLastDebugTime |-> sinceLastDebugTime,
                 sinceLastNoteTime |-> sinceLastNoteTime,
                 isVolumeRising |-> isVolumeRising,
                 sinceVolumeRiseTime |-> sinceVolumeRiseTime,
                 lastDB |-> lastDB]
    IN  IF ~got.ok THEN [idle EXCEPT !.outcome = "error"]
        ELSE IF NumSamples(b) < minSamples THEN idle
        ELSE Only({AfterLevel(b, idle, level) : level \in {getAudioLevel(b)}})

\* ------------------------------------------------------------ observation
NoMsg == [type |-> "none", note |-> NoNote, rms |-> 0, db |-> 0]

\* What the properties read of a run; the program reads none of it.
InitHist ==
    [lastProcessed |-> NoMsg,      \* last Note or Clear the UI handled
     lastSent |-> NoMsg,           \* last Note or Clear the loop sent
     prevDb |-> initialDb,         \* dB of the last frame the loop measured
     notesSent |-> 0,              \* Notes sent, counted up to 2
     sinceNoteSent |-> emitInterval + 1,   \* since the last Note was sent
     sinceJump |-> stabilizationDelay,     \* since the last frame 3 dB up and above -40 dB
     loudSinceJump |-> FALSE,      \* no frame below the silence floor since
     sinceOnset |-> stabilizationDelay + 1, \* since the last such frame met with the flag down
     loudSinceOnset |-> FALSE,
     noteSinceOnset |-> FALSE,     \* a Note was sent since that frame
     noteTooSoon |-> FALSE,        \* a Note was sent within 80 ms of the one before
     noteInJump |-> FALSE,         \* a Note was sent within 300 ms of a jump, level kept
     noteInOnset |-> FALSE,        \* a Note was sent within 300 ms of an onset, level kept
     levelSeen |-> FALSE,          \* a Level has been sent
     sinceLevelSent |-> debugInterval + 1,  \* since the last Level was sent
     levelTooSoon |-> FALSE,       \* a Level was sent within 200 ms of the one before
     watchDisplay |-> FALSE,       \* the two marks below are kept
     sinceShown |-> displayContinuity,  \* since the note on display was first shown
     replacedEarly |-> FALSE]      \* a note gave way to another within 500 ms

Sent(out) == SelectSeq(out, IsNoteOrClear)

Observe(h, r, wasRising) ==
    LET jump == r.measured /\ r.db > h.prevDb + onsetJumpDb /\ r.db > onsetFloorDb
        onset == jump /\ ~wasRising
        quiet == r.measured /\ r.db < silenceDb
        note == r.outcome = "note"
        level == \E i \in 1..Len(r.out) : r.out[i].type = "UpdateAudioLevelMsg"
        sj == IF jump THEN 0 ELSE h.sinceJump
        lj == IF jump THEN TRUE ELSE h.loudSinceJump /\ ~quiet
        so == IF onset THEN 0 ELSE h.sinceOnset
        lo == IF onset THEN TRUE ELSE h.loudSinceOnset /\ ~quiet
    IN  [h EXCEPT !.lastSent = IF Sent(r.out) # <<>> THEN Sent(r.out)[1] ELSE @,
                  !.prevDb = IF r.measured THEN r.db ELSE @,
                  !.notesSent = IF note /\ @ < 2 THEN @ + 1 ELSE @,
                  !.sinceNoteSent = IF note THEN 0 ELSE @,
                  !.sinceJump = sj,
                  !.loudSinceJump = lj,
                  !.sinceOnset = so,
                  !.loudSinceOnset = lo,
                  !.noteSinceOnset = IF onset THEN FALSE ELSE @ \/ note,
                  !.noteTooSoon = @ \/ (note /\ h.sinceNoteSent <= emitInterval),
                  !.levelSeen = @ \/ level,
                  !.sinceLevelSent = IF level THEN 0 ELSE @,
                  !.levelTooSoon = @ \/ (level /\ h.levelSeen
                                                /\ h.sinceLevelSent <= debugInterval),
                  !.noteInJump = @ \/ (note /\ lj /\ sj < stabilizationDelay),
                  !.noteInOnset = @ \/ (note /\ lo /\ so < stabilizationDelay)]

AllZero(b) == ~b.nil /\ Len(b.Samples) > 0 /\ \A i \in 1..Len(b.Samples) : b.Samples[i] = 0

\* One pass of the loop.  p.Send waits while the channel is full; the pass
\* is taken as a whole once the channel has room for what it sends.
IsLevel(msg) == msg.type = "UpdateAudioLevelMsg"

\* Once the program has quit p.Send returns at once and the message is lost.
Pass(got, r) ==
           /\ program = "running" => Len(msgs) + Len(r.out) <= MaxQueue
           /\ msgs' = IF program = "running" THEN msgs \o r.out ELSE msgs
           /\ sinceLastDebugTime' = r.sinceLastDebugTime
           /\ sinceLastNoteTime' = r.sinceLastNoteTime
           /\ isVolumeRising' = r.isVolumeRising
           /\ sinceVolumeRiseTime' = r.sinceVolumeRiseTime
           /\ lastDB' = r.lastDB
           /\ sleep' = r.sleepFor
           /\ late' = 0
           /\ iter' = [outcome |-> r.outcome, measured |-> r.measured, db |-> r.db,
                       detect |-> r.detect, clear |-> ClearNoteMsg \in Range(r.out),
                       allZero |-> got.ok /\ AllZero(got.buffer),
                       noPeak |-> got.ok /\ NoPeak(got.buffer),
                       shown |-> model.currentNote # NoNote,
                       slept |-> r.sleepFor > 0,
                       cancelled |-> program # "running",
                       sends |-> Len(r.out),
                       levelDue |-> sinceLastDebugTime > debugInterval,
                       frame |-> [rms |-> r.rms, db |-> r.db],
                       levels |-> SelectSeq(r.out, IsLevel),
                       levelAgain |-> hist.levelSeen /\ SelectSeq(r.out, IsLevel) # <<>>]
           /\ hist' = Observe(hist, r, isVolumeRising)

Iterate ==
    /\ program # "exited"
    /\ sleep = 0
    /\ \E got \in {GetBuffer} : \E r \in {Iteration(got)} : Pass(got, r)
    /\ UNCHANGED <<program, lockVars, capturerVars, model>>

\* 10 ms pass on every clock
Advance ==
    /\ sinceLastDebugTime' = Saturate(sinceLastDebugTime + 1, debugInterval + 1)
    /\ sinceLastNoteTime' = Saturate(sinceLastNoteTime + 1, emitInterval + 1)
    /\ sinceVolumeRiseTime' = Saturate(sinceVolumeRiseTime + 1, stabilizationDelay)
    /\ hist' = [hist EXCEPT !.sinceNoteSent = Saturate(@ + 1, emitInterval + 1),
                            !.sinceJump = Saturate(@ + 1, stabilizationDelay),
                            !.sinceOnset = Saturate(@ + 1, stabilizationDelay + 1),
                            !.sinceLevelSent = Saturate(@ + 1, debugInterval + 1),
                            !.sinceShown = Saturate(@ + 1, displayContinuity)]

\* 10 ms of the goroutine's time.Sleep pass; the UI's event loop has handled
\* what it was sent
Tick ==
    /\ program # "exited"
    /\ sleep > 0
    /\ msgs = <<>>
    /\ sleep' = sleep - 1
    /\ Advance
    /\ UNCHANGED <<program, lockVars, capturerVars, isVolumeRising, lastDB, late, msgs, model, iter>>

\* time.Sleep returns late: 10 ms pass after the sleep has run down
Overdue ==
    /\ program # "exited"
    /\ sleep = 0
    /\ late < MaxLate
    /\ msgs = <<>>
    /\ late' = late + 1
    /\ Advance
    /\ UNCHANGED <<program, lockVars, capturerVars, isVolumeRising, lastDB, sleep, msgs, model, iter>>

\* 10 ms of the goroutine's time.Sleep pass, whatever the UI has handled
Elapse ==
    /\ program # "exited"
    /\ sleep > 0
    /\ sleep' = sleep - 1
    /\ Advance
    /\ UNCHANGED <<program, lockVars, capturerVars, isVolumeRising, lastDB, late, msgs, model, iter>>

\* ------------------------------------------------------------ program
\* main before the goroutine starts: the capturer is started with an empty
\* buffer, SetAmplification(amplificationLevel) has run, volumeRiseTime is
\* the zero time, lastDebugTime and lastNoteTime are time.Now()
Init ==
    /\ isCapturing = TRUE
    /\ buffer = Buffer(<<>>, NoSpectrum)
    /\ amplification = amplificationLevel
    /\ callbacks = 0
    /\ sinceLastDebugTime = 0
    /\ sinceLastNoteTime = 0
    /\ isVolumeRising = FALSE
    /\ sinceVolumeRiseTime = stabilizationDelay
    /\ lastDB = initialDb
    /\ sleep = 0
    /\ late = 0
    /\ msgs = <<>>
    /\ model = NewModel
    /\ program = "running"
    /\ Unlocked
    /\ iter = [outcome |-> "init", measured |-> FALSE, db |-> initialDb,
               detect |-> FALSE, clear |-> FALSE, allZero |-> FALSE, noPeak |-> FALSE,
               shown |-> FALSE, slept |-> FALSE, cancelled |-> FALSE, sends |-> 0,
               levelDue |-> FALSE, frame |-> [rms |-> 0, db |-> initialDb],
               levels |-> <<>>, levelAgain |-> FALSE]
    /\ hist = InitHist

Callback == \E in \in Inputs : processAudio(in)

\* The goroutine runs as soon as its sleep ends.
Next == Callback \/ Iterate \/ UiUpdate \/ Tick

Spec == Init /\ [][Next]_vars

\* Silence and one tone, sleeps that may end late, and a scheduler that
\* keeps the goroutine, the clock and the UI's event loop going.
ToneCallback == \E in \in ToneInputs : processAudio(in)

NextLate == ToneCallback \/ Iterate \/ UiUpdate \/ Tick \/ Overdue

SpecLate ==
    /\ Init
    /\ [][NextLate]_vars
    /\ WF_vars(Iterate)
    /\ WF_vars(UiUpdate)
    /\ WF_vars(Tick)

\* Silence and one tone, and a UI that may fall behind the loop: messages
\* wait in the channel while the goroutine sleeps and sends again.
NextLag == ToneCallback \/ Iterate \/ UiUpdate \/ Elapse

SpecLag == Init /\ [][NextLag]_vars

\* The end of main: "q" or ctrl+c makes Update return tea.Quit and p.Run
\* return, what the channel still holds is dropped; the deferred
\* capturer.Stop() runs; main returns and the process ends, the goroutine
\* with it.
Quit ==
    /\ program = "running"
    /\ program' = "quit"
    /\ msgs' = <<>>
    /\ UNCHANGED <<lockVars, capturerVars, loopVars, model, hist>>

DeferredStop ==
    /\ program = "quit"
    /\ isCapturing
    /\ isCapturing' = FALSE
    /\ UNCHANGED <<program, lockVars, buffer, amplification, callbacks, loopVars, msgs, model, hist>>

Exit ==
    /\ program = "quit"
    /\ ~isCapturing
    /\ program' = "exited"
    /\ UNCHANGED <<lockVars, capturerVars, loopVars, msgs, model, hist>>

NextQuit == ToneCallback \/ Iterate \/ UiUpdate \/ Tick \/ Quit \/ DeferredStop \/ Exit

SpecQuit == Init /\ [][NextQuit]_vars

\* The first main: a capturer without amplification and a loop that only
\* detects and sends.
EarlyIteration(got) ==
    LET b == got.buffer
        idle == [outcome |-> "short", measured |-> FALSE, db |-> initialDb, rms |-> 0,
                 detect |-> FALSE, out |-> <<>>, sleepFor |-> shortSleep,
                 sinceLastDebugTime |-> sinceLastDebugTime,
                 sinceLastNoteTime |-> sinceLastNoteTime,
                 isVolumeRising |-> isVolumeRising,
                 sinceVolumeRiseTime |-> sinceVolumeRiseTime,
                 lastDB |-> lastDB]
    IN  IF ~got.ok THEN [idle EXCEPT !.outcome = "error", !.sleepFor = 0]
        ELSE IF NumSamples(b) < minSamples THEN idle
        ELSE Only({IF ~res.ok
                   THEN [idle EXCEPT !.outcome = "rejected", !.detect = TRUE]
                   ELSE [idle EXCEPT !.outcome = "note", !.detect = TRUE,
                                     !.out = <<UpdateNoteMsg(res.note)>>,
                                     !.sleepFor = longSleep] :
                   res \in {DetectPitch("FFTDetector", b)}})

EarlyIterate ==
    /\ program # "exited"
    /\ sleep = 0
    /\ \E got \in {GetBuffer} : \E r \in {EarlyIteration(got)} : Pass(got, r)
    /\ UNCHANGED <<program, lockVars, capturerVars, model>>

\* silence and a tone as loud as the amplified one
EarlyInputs == {Silence, Input(6 * amplificationLevel, ToneA)}

EarlyCallback == \E in \in EarlyInputs : processAudio(in)

InitEarly ==
    /\ isCapturing = TRUE
    /\ buffer = Buffer(<<>>, NoSpectrum)
    /\ amplification = 1
    /\ callbacks = 0
    /\ sinceLastDebugTime = 0
    /\ sinceLastNoteTime = 0
    /\ isVolumeRising = FALSE
    /\ sinceVolumeRiseTime = stabilizationDelay
    /\ lastDB = initialDb
    /\ sleep = 0
    /\ late = 0
    /\ msgs = <<>>
    /\ model = NewModel
    /\ program = "running"
    /\ Unlocked
    /\ iter = [outcome |-> "init", measured |-> FALSE, db |-> initialDb,
               detect |-> FALSE, clear |-> FALSE, allZero |-> FALSE, noPeak |-> FALSE,
               shown |-> FALSE, slept |-> FALSE, cancelled |-> FALSE, sends |-> 0,
               levelDue |-> FALSE, frame |-> [rms |-> 0, db |-> initialDb],
               levels |-> <<>>, levelAgain |-> FALSE]
    /\ hist = InitHist

NextEarly ==
    EarlyCallback \/ EarlyIterate \/ UiUpdate \/ Tick \/ Quit \/ DeferredStop \/ Exit

SpecEarly == InitEarly /\ [][NextEarly]_vars

\* processAudio and GetBuffer statement by statement, on a heap: c.buffer
\* is the struct NewPortAudioCapturer allocated, a slice is the number of
\* its array.  channels = 1, as main asks for.
bufferRef == 1

\* a mutex that lets everyone in
CanLockAlways(mutex) == TRUE

\* c.bufferMutex.Lock() goes on when nobody holds the mutex
CanLock(mutex) == mutex = "free"

LockInputs == UNION {[1..k -> {1, 2}] : k \in 1..MaxRuns}

Zeros(n) == [i \in 1..n |-> 0]

SamplesOf(h, ref) == h.arrays[h.structs[ref].Samples]

InitLock ==
    /\ isCapturing = TRUE
    /\ buffer = Buffer(<<>>, NoSpectrum)
    /\ amplification = amplificationLevel
    /\ callbacks = 0
    /\ sinceLastDebugTime = 0
    /\ sinceLastNoteTime = 0
    /\ isVolumeRising = FALSE
    /\ sinceVolumeRiseTime = stabilizationDelay
    /\ lastDB = initialDb
    /\ sleep = 0
    /\ late = 0
    /\ msgs = <<>>
    /\ model = NewModel
    /\ program = "running"
    /\ bufferMutex = "free"
    /\ pc = IdleThreads
    /\ heap = [structs |-> <<[Samples |-> 1, SampleRate |-> sampleRate]>>,
               arrays |-> << <<>> >>]
    /\ iter = [outcome |-> "init"]
    /\ hist = InitHist

LockRest == <<program, isCapturing, amplification, loopVars, msgs, model, hist>>

\* processAudio: c.bufferMutex.Lock()
CbLock ==
    /\ pc.cb = "idle"
    /\ isCapturing
    /\ callbacks < MaxCallbacks
    /\ CanLock(bufferMutex)
    /\ bufferMutex' = "processAudio"
    /\ \E in \in LockInputs : pc' = [pc EXCEPT !.cb = "alloc", !.cbIn = in]
    /\ UNCHANGED <<LockRest, buffer, callbacks, heap>>

\* c.buffer.Samples = make([]float32, len(in))
CbAlloc ==
    /\ pc.cb = "alloc"
    /\ heap' = [heap EXCEPT !.arrays = Append(@, Zeros(Len(pc.cbIn))),
                            !.structs[bufferRef].Samples = Len(heap.arrays) + 1]
    /\ pc' = [pc EXCEPT !.cb = "write", !.cbI = 1]
    /\ UNCHANGED <<LockRest, buffer, callbacks, bufferMutex>>

\* c.buffer.Samples[i] = sample * c.amplification
CbWrite ==
    /\ pc.cb = "write"
    /\ pc.cbI <= Len(pc.cbIn)
    /\ heap' = [heap EXCEPT !.arrays[heap.structs[bufferRef].Samples][pc.cbI] =
                                pc.cbIn[pc.cbI] * amplification]
    /\ pc' = [pc EXCEPT !.cbI = @ + 1]
    /\ UNCHANGED <<LockRest, buffer, callbacks, bufferMutex>>

\* the deferred c.bufferMutex.Unlock() and the return
CbUnlock ==
    /\ pc.cb = "write"
    /\ pc.cbI > Len(pc.cbIn)
    /\ bufferMutex' = "free"
    /\ pc' = [pc EXCEPT !.cb = "idle", !.stored = SamplesOf(heap, bufferRef),
                        !.later = pc.got # 0]
    /\ buffer' = Buffer(SamplesOf(heap, bufferRef), NoSpectrum)
    /\ callbacks' = callbacks + 1
    /\ UNCHANGED <<LockRest, heap>>

\* GetBuffer: if !c.isCapturing { return nil, errors.New(...) }
GbCall ==
    /\ pc.gb = "idle"
    /\ pc.gets < MaxGets
    /\ pc' = IF ~isCapturing
             THEN [pc EXCEPT !.gets = @ + 1, !.got = 0]
             ELSE [pc EXCEPT !.gb = "lock"]
    /\ UNCHANGED <<LockRest, buffer, callbacks, bufferMutex, heap>>

\* c.bufferMutex.Lock()
GbLock ==
    /\ pc.gb = "lock"
    /\ CanLock(bufferMutex)
    /\ bufferMutex' = "GetBuffer"
    /\ pc' = [pc EXCEPT !.gb = "alloc"]
    /\ UNCHANGED <<LockRest, buffer, callbacks, heap>>

\* bufferCopy := &AudioBuffer{Samples: make([]float32, len(c.buffer.Samples)), ...}
GbAlloc ==
    /\ pc.gb = "alloc"
    /\ heap' = [structs |-> Append(heap.structs,
                                   [Samples |-> Len(heap.arrays) + 1,
                                    SampleRate |-> heap.structs[bufferRef].SampleRate]),
                arrays |-> Append(heap.arrays, Zeros(Len(SamplesOf(heap, bufferRef))))]
    /\ pc' = [pc EXCEPT !.gb = "header", !.gbCopy = Len(heap.structs) + 1]
    /\ UNCHANGED <<LockRest, buffer, callbacks, bufferMutex>>

\* copy(bufferCopy.Samples, c.buffer.Samples): the source slice is read
GbHeader ==
    /\ pc.gb = "header"
    /\ pc' = [pc EXCEPT !.gb = "copy", !.gbSrc = heap.structs[bufferRef].Samples, !.gbI = 1]
    /\ UNCHANGED <<LockRest, buffer, callbacks, bufferMutex, heap>>

CopyLen == Only({IF Len(dst) <= Len(src) THEN Len(dst) ELSE Len(src) :
                   dst \in {SamplesOf(heap, pc.gbCopy)}, src \in {heap.arrays[pc.gbSrc]}})

\* copy: one element
GbCopy ==
    /\ pc.gb = "copy"
    /\ pc.gbI <= CopyLen
    /\ heap' = [heap EXCEPT !.arrays[heap.structs[pc.gbCopy].Samples][pc.gbI] =
                                heap.arrays[pc.gbSrc][pc.gbI]]
    /\ pc' = [pc EXCEPT !.gbI = @ + 1]
    /\ UNCHANGED <<LockRest, buffer, callbacks, bufferMutex>>

\* the deferred c.bufferMutex.Unlock(), then return bufferCopy, nil
GbReturn ==
    /\ pc.gb = "copy"
    /\ pc.gbI > CopyLen
    /\ bufferMutex' = "free"
    /\ pc' = [pc EXCEPT !.gb = "idle", !.got = pc.gbCopy, !.gets = @ + 1,
                        !.snapshot = SamplesOf(heap, pc.gbCopy),
                        !.expected = pc.stored, !.later = FALSE]
    /\ UNCHANGED <<LockRest, buffer, callbacks, heap>>

NextLock ==
    CbLock \/ CbAlloc \/ CbWrite \/ CbUnlock
        \/ GbCall \/ GbLock \/ GbAlloc \/ GbHeader \/ GbCopy \/ GbReturn

SpecLock == InitLock /\ [][NextLock]_vars

\* Two tones, A4 and E5, one after the other.
TwoToneInputs == {Input(6, ToneA), Input(6, ToneE)}

TwoToneCallback == \E in \in TwoToneInputs : processAudio(in)

NextTwoTones == TwoToneCallback \/ Iterate \/ UiUpdate \/ Tick

InitTwoTones ==
    /\ isCapturing = TRUE
    /\ buffer = Buffer(<<>>, NoSpectrum)
    /\ amplification = amplificationLevel
    /\ callbacks = 0
    /\ sinceLastDebugTime = 0
    /\ sinceLastNoteTime = 0
    /\ isVolumeRising = FALSE
    /\ sinceVolumeRiseTime = stabilizationDelay
    /\ lastDB = initialDb
    /\ sleep = 0
    /\ late = 0
    /\ msgs = <<>>
    /\ model = NewModel
    /\ program = "running"
    /\ Unlocked
    /\ iter = [outcome |-> "init", measured |-> FALSE, db |-> initialDb,
               detect |-> FALSE, clear |-> FALSE, allZero |-> FALSE, noPeak |-> FALSE,
               shown |-> FALSE, slept |-> FALSE, cancelled |-> FALSE, sends |-> 0,
               levelDue |-> FALSE, frame |-> [rms |-> 0, db |-> initialDb],
               levels |-> <<>>, levelAgain |-> FALSE]
    /\ hist = [InitHist EXCEPT !.watchDisplay = TRUE]

SpecTwoTones == InitTwoTones /\ [][NextTwoTones]_vars

\* A capturer on its own: Start, Stop and GetBuffer in any order.  The
\* PortAudio calls may fail; the DefaultCapturer makes none.
Capturers == {"DefaultCapturer", "PortAudioCapturer"}

Failures(capturer, calls) == IF capturer = "PortAudioCapturer" THEN calls ELSE {"none"}

\* a Start that does not look at isCapturing
StartNeverRefused(capturing) == FALSE

\* if c.isCapturing { return errors.New("audio capture already started") }
StartRefused(capturing) == capturing

\* if !c.isCapturing { return ..., errors.New("audio capture not started") }
NotStarted(capturing) == ~capturing

\* portaudio.Initialize() in NewPortAudioCapturer: the library's count of
\* Initialize calls not yet undone by Terminate; the DefaultCapturer has none
NewLibrary(capturer) == IF capturer = "PortAudioCapturer" THEN 1 ELSE 0

\* what a call leaves: the error it returns, isCapturing, c.stream and the
\* library's count, and whether it called portaudio.OpenDefaultStream, which
\* returns the error NotInitialized when the count is zero
Start(capturer, capturing, stream, library, fail) ==
    LET left == [err |-> TRUE, isCapturing |-> capturing, stream |-> stream,
                 library |-> library, opens |-> FALSE]
    IN  IF StartRefused(capturing) THEN left
        ELSE IF capturer = "DefaultCapturer"
        THEN [left EXCEPT !.err = FALSE, !.isCapturing = TRUE]
        ELSE IF fail = "open" \/ library = 0
        THEN [left EXCEPT !.stream = "nil", !.opens = TRUE]
        ELSE IF fail = "start" THEN [left EXCEPT !.stream = "closed", !.opens = TRUE]
        ELSE [left EXCEPT !.err = FALSE, !.isCapturing = TRUE, !.stream = "started",
                          !.opens = TRUE]

Stop(capturer, capturing, stream, library, fail) ==
    LET left == [err |-> TRUE, isCapturing |-> capturing, stream |-> stream,
                 library |-> library, opens |-> FALSE]
    IN  IF NotStarted(capturing) THEN left
        ELSE IF capturer = "DefaultCapturer"
        THEN [left EXCEPT !.err = FALSE, !.isCapturing = FALSE]
        ELSE IF fail = "stop" THEN left
        ELSE IF fail = "close" THEN [left EXCEPT !.stream = "stopped"]
        ELSE IF fail = "terminate" THEN [left EXCEPT !.stream = "closed"]
        ELSE [left EXCEPT !.err = FALSE, !.isCapturing = FALSE, !.stream = "closed",
                          !.library = library - 1]

InitCapturer ==
    /\ isCapturing = FALSE
    /\ buffer = Buffer(<<>>, NoSpectrum)
    /\ amplification = amplificationLevel
    /\ callbacks = 0
    /\ sinceLastDebugTime = 0
    /\ sinceLastNoteTime = 0
    /\ isVolumeRising = FALSE
    /\ sinceVolumeRiseTime = stabilizationDelay
    /\ lastDB = initialDb
    /\ sleep = 0
    /\ late = 0
    /\ msgs = <<>>
    /\ model = NewModel
    /\ program = "running"
    /\ Unlocked
    /\ \E c \in Capturers :
           iter = [outcome |-> "init", capturer |-> c, stream |-> "nil", err |-> FALSE,
                   refused |-> FALSE, changed |-> FALSE, calls |-> 0, expected |-> FALSE,
                   got |-> NilBuffer, library |-> NewLibrary(c), opened |-> FALSE,
                   libraryAtOpen |-> 0]
    /\ hist = InitHist

CapturerRest ==
    <<program, lockVars, buffer, amplification, callbacks, sinceLastDebugTime,
      sinceLastNoteTime, isVolumeRising, sinceVolumeRiseTime, lastDB, sleep, late,
      msgs, model, hist>>

Called(name, r, refused) ==
    /\ isCapturing' = r.isCapturing
    /\ iter' = [iter EXCEPT !.outcome = name, !.stream = r.stream, !.err = r.err,
                            !.refused = refused,
                            !.changed = r.isCapturing # isCapturing \/ r.stream # iter.stream,
                            !.calls = @ + 1,
                            !.expected = IF r.err THEN @ ELSE name = "Start",
                            !.got = NilBuffer,
                            !.library = r.library, !.opened = r.opens,
                            !.libraryAtOpen = iter.library]
    /\ UNCHANGED CapturerRest

CallStart ==
    /\ iter.calls < MaxCalls
    /\ \E fail \in Failures(iter.capturer, {"none", "open", "start"}) :
       \E r \in {Start(iter.capturer, isCapturing, iter.stream, iter.library, fail)} :
           Called("Start", r, isCapturing)

CallStop ==
    /\ iter.calls < MaxCalls
    /\ \E fail \in Failures(iter.capturer, {"none", "stop", "close", "terminate"}) :
       \E r \in {Stop(iter.capturer, isCapturing, iter.stream, iter.library, fail)} :
           Called("Stop", r, ~isCapturing)

\* GetBuffer of either capturer: an error while not capturing, else the frame
CallGetBuffer ==
    /\ iter.calls < MaxCalls
    /\ \E got \in {GetBuffer} :
           iter' = [iter EXCEPT !.outcome = "GetBuffer", !.err = ~got.ok,
                                !.refused = ~isCapturing, !.changed = FALSE,
                                !.calls = @ + 1, !.got = got.buffer, !.opened = FALSE]
    /\ UNCHANGED <<isCapturing, CapturerRest>>

\* the stream delivers a frame to processAudio
StreamCallback ==
    /\ iter.capturer = "PortAudioCapturer"
    /\ iter.stream = "started"
    /\ ToneCallback

NextCapturer == CallStart \/ CallStop \/ CallGetBuffer \/ StreamCallback

SpecCapturer == InitCapturer /\ [][NextCapturer]_vars

\* A detector called on its own: pitch.Detector.DetectPitch on one frame.
NoCall == [outcome |-> "init"]

InitDetect ==
    /\ isCapturing = FALSE
    /\ buffer \in DetectFrames
    /\ amplification = amplificationLevel
    /\ callbacks = 0
    /\ sinceLastDebugTime = 0
    /\ sinceLastNoteTime = 0
    /\ isVolumeRising = FALSE
    /\ sinceVolumeRiseTime = stabilizationDelay
    /\ lastDB = initialDb
    /\ sleep = 0
    /\ late = 0
    /\ msgs = <<>>
    /\ model = NewModel
    /\ program = "running"
    /\ Unlocked
    /\ iter = NoCall
    /\ hist = InitHist

Call ==
    /\ iter = NoCall
    /\ \E d \in Detectors :
           iter' = [outcome |-> "call", detector |-> d, result |-> DetectPitch(d, buffer)]
    /\ UNCHANGED <<program, lockVars, capturerVars, sinceLastDebugTime, sinceLastNoteTime, isVolumeRising,
                   sinceVolumeRiseTime, lastDB, sleep, late, msgs, model, hist>>

NextDetect == Call

SpecDetect == InitDetect /\ [][NextDetect]_vars

\* frequencyToNote called on its own, on a frequency and on one a step above.
\* Frequencies are in 1/100 Hz: a grid over the octaves from A0 up and every
\* 1/100 Hz around the G#4/A4 and A4/A#4 boundaries.
NoteFrequencies ==
    {(f * Pow2(o + 4)) \div 16 : f \in {44000 + 250 * k : k \in 0..175}, o \in -4..MaxOctave}
        \cup (42700..42800) \cup (45240..45340)

FrequencySteps == {1, 100}

InitNote ==
    /\ isCapturing = FALSE
    /\ buffer = NilBuffer
    /\ amplification = amplificationLevel
    /\ callbacks = 0
    /\ sinceLastDebugTime = 0
    /\ sinceLastNoteTime = 0
    /\ isVolumeRising = FALSE
    /\ sinceVolumeRiseTime = stabilizationDelay
    /\ lastDB = initialDb
    /\ sleep = 0
    /\ late = 0
    /\ msgs = <<>>
    /\ model = NewModel
    /\ program = "running"
    /\ Unlocked
    /\ \E f \in NoteFrequencies, d \in FrequencySteps :
           iter = [outcome |-> "init", frequency |-> f, step |-> d]
    /\ hist = InitHist

Convert ==
    /\ iter.outcome = "init"
    /\ iter' = [outcome |-> "convert", frequency |-> iter.frequency, step |-> iter.step,
                rounded |-> RoundedSemitones(iter.frequency),
                note |-> frequencyToNote(iter.frequency),
                roundedAbove |-> RoundedSemitones(iter.frequency + iter.step),
                above |-> frequencyToNote(iter.frequency + iter.step)]
    /\ UNCHANGED <<program, lockVars, capturerVars, sinceLastDebugTime, sinceLastNoteTime, isVolumeRising,
                   sinceVolumeRiseTime, lastDB, sleep, late, msgs, model, hist>>

NextNote == Convert

SpecNote == InitNote /\ [][NextNote]_vars

\* findFundamentalFrequency called on its own: a spectrum of any length up
\* to 2 * MaxHalf + 1, given by the magnitudes of its lower half (the upper
\* half is cut off by spectrumHalf), at sample rates that put the 80..1200 Hz
\* band above, across and below the bins.
PeakMagnitudes == {0, 1, 2, 5}
PeakRates == {300, 1000, 5000}
PeakLengths == 0..(2 * MaxHalf + 1)
HalfSpectrum(n) ==
    {[base |-> 0, bumps |-> b] : b \in [0..((n \div 2) - 1) -> PeakMagnitudes]}

InitPeaks ==
    /\ isCapturing = FALSE
    /\ buffer = NilBuffer
    /\ amplification = amplificationLevel
    /\ callbacks = 0
    /\ sinceLastDebugTime = 0
    /\ sinceLastNoteTime = 0
    /\ isVolumeRising = FALSE
    /\ sinceVolumeRiseTime = stabilizationDelay
    /\ lastDB = initialDb
    /\ sleep = 0
    /\ late = 0
    /\ msgs = <<>>
    /\ model = NewModel
    /\ program = "running"
    /\ Unlocked
    /\ \E n \in PeakLengths, rate \in PeakRates :
         \E spectrum \in HalfSpectrum(n) :
           iter = [outcome |-> "init", spectrum |-> spectrum, n |-> n, rate |-> rate]
    /\ hist = InitHist

Extract ==
    /\ iter.outcome = "init"
    /\ \E frequency \in FundamentalFrequencies(iter.spectrum, iter.n, iter.rate) :
           iter' = [outcome |-> "extract", spectrum |-> iter.spectrum, n |-> iter.n,
                    rate |-> iter.rate,
                    minBin |-> MinBin(iter.n, iter.rate),
                    maxBin |-> MaxBin(iter.n, iter.rate),
                    read |-> BinsRead(iter.spectrum, iter.n, iter.rate),
                    peaks |-> BandPeaks(iter.spectrum, iter.n, iter.rate),
                    frequency |-> frequency]
    /\ UNCHANGED <<program, lockVars, capturerVars, sinceLastDebugTime, sinceLastNoteTime, isVolumeRising,
                   sinceVolumeRiseTime, lastDB, sleep, late, msgs, model, hist>>

NextPeaks == Extract

SpecPeaks == InitPeaks /\ [][NextPeaks]_vars

\* FFTDetector.DetectPitch called more than once on one frame, the frame on
\* the heap.  An array of the heap holds the runs of samples, the number of
\* times the Hann window went over them, and the spectrum fft.FFT yields for
\* them once windowed.
MaxDetects == 2

NewFFTDetector(windowSize) ==
    [windowSize |-> windowSize, minFrequency |-> minFrequency,
     maxFrequency |-> maxFrequency, noiseFloor |-> noiseFloor,
     peakThreshold |-> peakThresholdPct, volumeThreshold |-> volumeThreshold]

\* 1000 * the root mean square of 0.5 * (1 - cos(2*pi*i/(n-1))) over run i
\* of a frame of 1, 2, 3 and 4 runs
HannRms == << <<612>>, <<612, 612>>, <<377, 917, 377>>, <<238, 833, 833, 238>> >>

\* sample * float32(windowCoeff), run by run: a run keeps its root mean square
Windowed(array) ==
    LET samples == array.Samples
    IN  [array EXCEPT
           !.Samples = [i \in DOMAIN samples |->
                          (samples[i] * HannRms[Len(samples)][i]) \div 1000],
           !.windows = @ + 1]

\* a window written over the samples it is given
applyHannWindowInPlace(h, samples) ==
    [heap |-> [h EXCEPT !.arrays[samples] = Windowed(@)], slice |-> samples]

\* windowedSamples := make([]float32, len(samples)), filled and returned
applyHannWindow(h, samples) ==
    [heap |-> [h EXCEPT !.arrays = Append(@, Windowed(h.arrays[samples]))],
     slice |-> Len(h.arrays) + 1]

\* a magnitude after k more windows: each takes it down to 3/4 (the sum of
\* w^2 over the sum of w)
RECURSIVE Damped(_, _)
Damped(x, k) == IF k <= 0 THEN x ELSE Damped((x * 3) \div 4, k - 1)

\* fft.FFT of an array that has been windowed: its spectrum when windowed
\* once, damped when windowed again
FFT(array) ==
    [base |-> Damped(array.spectrum.base, array.windows - 1),
     bumps |-> [b \in DOMAIN array.spectrum.bumps |->
                  Damped(array.spectrum.bumps[b], array.windows - 1)]]

\* *audio.AudioBuffer as DetectPitch reads it: ref 0 is nil
FrameAt(h, ref) ==
    IF ref = 0 THEN NilBuffer
    ELSE Buffer(h.arrays[h.structs[ref].Samples].Samples,
                h.arrays[h.structs[ref].Samples].spectrum)

\* FFTDetector.DetectPitch on the heap: what it returns and what it leaves
\* in the heap and in the detector, whose fields it only reads
DetectPitchAt(h, d, ref) ==
    LET frame == FrameAt(h, ref)
    IN  IF IsEmpty(frame)
        THEN [heap |-> h, detector |-> d, result |-> Rejected(ErrEmptyBuffer)]
        ELSE IF GateRejects(frame)
        THEN [heap |-> h, detector |-> d, result |-> Rejected(ErrVolumeThreshold)]
        ELSE Only({Only({[heap |-> w.heap, detector |-> d,
                          result |-> IF OutOfBand(peakFreq)
                                     THEN Rejected(ErrVolumeThreshold)
                                     ELSE Detected(frequencyToNote(peakFreq))] :
                         peakFreq \in {findFundamentalFrequency(
                                          FFT(w.heap.arrays[w.slice]),
                                          NumSamples(frame), frame.SampleRate)}}) :
                   w \in {applyHannWindow(h, h.structs[ref].Samples)}})

\* two tones of one magnitude: the sort leaves either in front, and it is a
\* function of the peaks it is given
TiedTones ==
    [base |-> 0, bumps |-> (40 :> 100 @@ 41 :> 312 @@ 42 :> 100
                            @@ 60 :> 100 @@ 61 :> 312 @@ 62 :> 100)]

TwiceFrames ==
    DetectFrames
    \cup {Buffer(r, TiedTones) : r \in {q \in RunsUpTo(MaxRuns) : SumSq(q) # 0}}

HeapOf(frame) ==
    IF frame.nil THEN EmptyHeap
    ELSE [structs |-> <<[Samples |-> 1, SampleRate |-> frame.SampleRate]>>,
          arrays |-> <<[Samples |-> frame.Samples, windows |-> 0,
                        spectrum |-> frame.spectrum]>>]

InitTwice ==
    /\ isCapturing = FALSE
    /\ buffer = NilBuffer
    /\ amplification = amplificationLevel
    /\ callbacks = 0
    /\ sinceLastDebugTime = 0
    /\ sinceLastNoteTime = 0
    /\ isVolumeRising = FALSE
    /\ sinceVolumeRiseTime = stabilizationDelay
    /\ lastDB = initialDb
    /\ sleep = 0
    /\ late = 0
    /\ msgs = <<>>
    /\ model = NewModel
    /\ program = "running"
    /\ bufferMutex = "free"
    /\ pc = IdleThreads
    /\ \E frame \in TwiceFrames :
         /\ heap = HeapOf(frame)
         /\ iter = [outcome |-> "init", frame |-> IF frame.nil THEN 0 ELSE 1,
                    given |-> frame, detector |-> NewFFTDetector(bufferSize),
                    results |-> <<>>]
    /\ hist = InitHist

DetectAgain ==
    /\ Len(iter.results) < MaxDetects
    /\ \E r \in {DetectPitchAt(heap, iter.detector, iter.frame)} :
         /\ heap' = r.heap
         /\ iter' = [iter EXCEPT !.outcome = "detect", !.detector = r.detector,
                                 !.results = Append(@, r.result)]
    /\ UNCHANGED <<program, bufferMutex, pc, capturerVars, sinceLastDebugTime,
                   sinceLastNoteTime, isVolumeRising, sinceVolumeRiseTime, lastDB,
                   sleep, late, msgs, model, hist>>

NextTwice == DetectAgain

SpecTwice == InitTwice /\ [][NextTwice]_vars

\* findFundamentalFrequency on a 12-point spectrum whose bins 2, 3 and 4
\* take every magnitude up to MaxTriple: every shape of a peak and its two
\* neighbours.
MaxTriple == 12

InitTriples ==
    /\ isCapturing = FALSE
    /\ buffer = NilBuffer
    /\ amplification = amplificationLevel
    /\ callbacks = 0
    /\ sinceLastDebugTime = 0
    /\ sinceLastNoteTime = 0
    /\ isVolumeRising = FALSE
    /\ sinceVolumeRiseTime = stabilizationDelay
    /\ lastDB = initialDb
    /\ sleep = 0
    /\ late = 0
    /\ msgs = <<>>
    /\ model = NewModel
    /\ program = "running"
    /\ Unlocked
    /\ \E a, b, c \in 0..MaxTriple, rate \in PeakRates :
           iter = [outcome |-> "init", n |-> 12, rate |-> rate,
                   spectrum |-> [base |-> 0,
                                 bumps |-> (0 :> 0 @@ 1 :> 0 @@ 2 :> a @@ 3 :> b
                                            @@ 4 :> c @@ 5 :> 0)]]
    /\ hist = InitHist

SpecTriples == InitTriples /\ [][NextPeaks]_vars

\* The UI model on its own: Model.Update on every kind of message, from
\* NewModel and from the models that a run of Notes, alternately A4 and E5
\* with cents that tell them apart, leaves behind.
MaxUiMsgs == 3

NoteOf(name, octave, frequency, cents) ==
    [Name |-> name, Octave |-> octave, Frequency |-> frequency, Cents |-> cents]

FillNote(i) ==
    IF i % 2 = 1 THEN NoteOf("A", 4, 44000, i - 25) ELSE NoteOf("E", 5, 65926, i - 25)

\* Update called on m with the Notes lo..hi of the run, one after the other
RECURSIVE Replayed(_, _, _)
Replayed(m, lo, hi) ==
    IF lo > hi THEN m
    ELSE IF lo = hi THEN Update(m, UpdateNoteMsg(FillNote(lo)))
    ELSE Only({Replayed(half, ((lo + hi) \div 2) + 1, hi) :
               half \in {Replayed(m, lo, (lo + hi) \div 2)}})

Filled(k) == Replayed(NewModel, 1, k)

\* timelines that are empty, one short of the limit and at the limit
Fills == {0, maxTimelineEntries - 1, maxTimelineEntries}

UiNotes == {NoteOf("A", 4, 44000, 0), NoteOf("A", 4, 44100, 3), NoteOf("E", 5, 65926, 0)}

UiMsgs ==
    {UpdateNoteMsg(n) : n \in UiNotes}
    \cup {ClearNoteMsg, UpdateAudioLevelMsg(48, -26), TickMsg, WindowSizeMsg(80, 24)}
    \cup {KeyMsg(k) : k \in {"q", "ctrl+c", "d", "x"}}

InitUi ==
    /\ isCapturing = FALSE
    /\ buffer = NilBuffer
    /\ amplification = amplificationLevel
    /\ callbacks = 0
    /\ sinceLastDebugTime = 0
    /\ sinceLastNoteTime = 0
    /\ isVolumeRising = FALSE
    /\ sinceVolumeRiseTime = stabilizationDelay
    /\ lastDB = initialDb
    /\ sleep = 0
    /\ late = 0
    /\ msgs = <<>>
    /\ \E k \in Fills : model = Filled(k)
    /\ program = "running"
    /\ Unlocked
    /\ iter = [outcome |-> "init", msg |-> NoMsg, before |-> NewModel, handled |-> 0]
    /\ hist = InitHist

\* the event loop hands one message to Update and takes the model it
\* returns; tea.Quit ends the loop
HandleMsg ==
    /\ program = "running"
    /\ iter.handled < MaxUiMsgs
    /\ \E msg \in UiMsgs :
         /\ model' = Update(model, msg)
         /\ program' = IF Command(msg) = "tea.Quit" THEN "quit" ELSE program
         /\ iter' = [outcome |-> "update", msg |-> msg, before |-> model,
                     handled |-> iter.handled + 1]
    /\ UNCHANGED <<lockVars, capturerVars, sinceLastDebugTime, sinceLastNoteTime,
                   isVolumeRising, sinceVolumeRiseTime, lastDB, sleep, late, msgs, hist>>

NextUi == HandleMsg

SpecUi == InitUi /\ [][NextUi]_vars

\* ------------------------------------------------------------ properties
\* the steady tone of ToneInputs as the capturer holds it
ToneBuffer == Amplify(Input(6, ToneA), amplificationLevel)

\* the device has delivered its last frame and it is the tone
ToneLasting == callbacks = MaxCallbacks /\ buffer = ToneBuffer

NoNoteOrClearPending == \A i \in 1..Len(msgs) : ~IsNoteOrClear(msgs[i])

\* C1: every frame the loop measures below the silence floor (-30 dB) gets
\* a Clear in that same iteration, leaves isVolumeRising false and is not
\* handed to DetectPitch, whatever lastDB and isVolumeRising were.
C1_GateRejectedFrameClears ==
    (iter.measured /\ iter.db < silenceDb)
        => (iter.clear /\ ~isVolumeRising /\ ~iter.detect)

\* C2, as stated: after any frame more than 3 dB above the frame before it
\* and above -40 dB, and while no frame since was below the silence floor,
\* no Note is sent until 300 ms have passed since that frame.
C2_NoNoteWithin300msOfJump == ~hist.noteInJump

\* C2, amended: the same for a frame that jumps while no rise is being
\* tracked (isVolumeRising false); a jump during a tracked rise does not
\* restart the delay.
C2_NoNoteWithin300msOfRiseStart == ~hist.noteInOnset

\* a Note sent 300 ms after the frame that started the rise, the level kept
C2_NoteAfterSettledRise ==
    /\ iter.outcome = "note"
    /\ hist.loudSinceOnset
    /\ hist.sinceOnset = stabilizationDelay

\* C3: a frame that passed the loop's level check and in which the peak
\* search finds no peak is rejected by DetectPitch, and the loop sends a
\* Clear for it and no Note.
C3_NoPeakFrameClears ==
    (iter.detect /\ iter.noPeak) => (iter.clear /\ iter.outcome # "note")

\* C4: two consecutive Notes of the loop are more than 80 ms apart; a note
\* detected within 80 ms of the last Note sent is not sent.
C4_NotesMoreThan80msApart == ~hist.noteTooSoon

\* a second Note has been sent
C4_SecondNoteSent == hist.notesSent = 2 /\ iter.outcome = "note"

\* C5: an all-zero frame read while a note is on display gets a Clear in
\* that iteration; from the moment the UI has handled a Clear until it
\* handles the next Note, currentNote is nil and View shows the placeholder.
C5_SilentFrameClearsDisplay ==
    /\ (iter.allZero /\ iter.shown) => iter.clear
    /\ hist.lastProcessed = ClearNoteMsg
           => (model.currentNote = NoNote /\ View(model) = Placeholder)

\* the UI has handled the Clear of an all-zero frame that came while a note
\* was on display
C5_SilenceAfterShownNote ==
    /\ iter.allZero /\ iter.shown
    /\ hist.lastProcessed = ClearNoteMsg
    /\ msgs = <<>>

\* C6: the UI handles Notes and Clears in the order the loop sent them:
\* once none is waiting, currentNote is the note of the last Note sent if
\* that was the last of them, and nil if the last sent was a Clear.
C6_DisplayFollowsLastEvent ==
    NoNoteOrClearPending
        => /\ hist.lastSent.type = "UpdateNoteMsg" => model.currentNote = hist.lastSent.note
           /\ hist.lastSent.type = "ClearNoteMsg" => model.currentNote = NoNote
           /\ hist.lastProcessed = hist.lastSent

\* a Note and then a Clear were sent and both have been handled
C6_NoteThenClearHandled ==
    /\ hist.notesSent > 0
    /\ hist.lastSent = ClearNoteMsg
    /\ hist.lastProcessed = ClearNoteMsg
    /\ msgs = <<>>

\* C7, as stated: once 300 ms have passed since the frame that started the
\* rise, the tone lasting, the first Note has been sent.
C7_FirstNoteWithin300ms ==
    (hist.loudSinceOnset /\ ~hist.noteSinceOnset)
        => hist.sinceOnset <= stabilizationDelay

\* C7, amended: no Note comes before 300 ms have passed since the frame that
\* started the rise, and while the tone lasts the loop sends a Note again
\* and again.
C7_SteadyToneKeepsSendingNotes ==
    /\ [](~hist.noteInOnset)
    /\ []<>(ToneLasting => iter.outcome = "note")

\* the tone lasts and a second Note has been sent for it
C7_SecondNoteOfTone ==
    /\ ToneLasting
    /\ iter.outcome = "note"
    /\ hist.noteSinceOnset
    /\ hist.notesSent = 2

\* C8: FFTDetector.DetectPitch on a frame with samples, all of them zero,
\* returns ErrVolumeThreshold and no Note.
C8_ZeroFrameRejected ==
    (iter.outcome = "call" /\ iter.detector = "FFTDetector" /\ AllZero(buffer))
        => iter.result = Rejected(ErrVolumeThreshold)

\* FFTDetector.DetectPitch has been called on an all-zero frame
C8_ZeroFrameCalled ==
    iter.outcome = "call" /\ iter.detector = "FFTDetector" /\ AllZero(buffer)

\* C9: on a frame with samples FFTDetector.DetectPitch returns
\* ErrVolumeThreshold ahead of the transform exactly when RMS <
\* volumeThreshold, or dB < -50, or the greatest absolute sample <
\* 2 * volumeThreshold, where dB is 20*log10(RMS) for RMS above 1e-7 and
\* -100 otherwise; every other frame gets what the spectral analysis gives.
C9_GateRejectsExactly ==
    (iter.outcome = "call" /\ iter.detector = "FFTDetector" /\ ~IsEmpty(buffer))
        => LET rms == Rms(buffer)
               db == IF MeanSq1000(buffer) > 0 THEN Log10Db(MeanSq1000(buffer))
                     ELSE initialDb
               peak == PeakOf(buffer.Samples)
               rejects == \/ rms < volumeThreshold
                          \/ db < detectFloorDb
                          \/ peak < 2 * volumeThreshold
               peakFreq == findFundamentalFrequency(buffer.spectrum, NumSamples(buffer),
                                                    buffer.SampleRate)
           IN  /\ rejects => iter.result = Rejected(ErrVolumeThreshold)
               /\ ~rejects => iter.result = IF OutOfBand(peakFreq)
                                            THEN Rejected(ErrVolumeThreshold)
                                            ELSE Detected(frequencyToNote(peakFreq))

\* FFTDetector.DetectPitch has rejected a frame whose RMS and dB pass and
\* whose greatest sample is under 2 * volumeThreshold
C9_RejectedByPeakAlone ==
    /\ iter.outcome = "call" /\ iter.detector = "FFTDetector" /\ ~IsEmpty(buffer)
    /\ ~LevelTooLow(buffer)
    /\ PeakOf(buffer.Samples) < 2 * volumeThreshold
    /\ iter.result = Rejected(ErrVolumeThreshold)

\* C10: DetectPitch of every Detector, on a nil buffer or one with no
\* samples, returns the ErrEmptyBuffer value and no Note.
C10_EmptyBufferGivesErrEmptyBuffer ==
    (iter.outcome = "call" /\ IsEmpty(buffer))
        => iter.result = Rejected(ErrEmptyBuffer)

\* position of a note name in [C, C#, D, D#, E, F, F#, G, G#, A, A#, B]
IndexOfName(name) == CHOOSE i \in 0..11 : noteNames[i + 1] = name

Converted == "outcome" \in DOMAIN iter /\ iter.outcome = "convert"

\* C11: for every rounded semitone count r from A4 (negative, zero or
\* positive) frequencyToNote gives the pitch class ((r+9) mod 12 + 12) mod 12
\* in the order C..B, always within 0..11, and the octave 4 + floor((r+9)/12),
\* so that 12*(octave-4) + index - 9 = r; r = 0 is A4, r = 1 is A#4, r = -12
\* is A3, and 220.0 Hz is A3.
C11_NoteAndOctaveFromSemitones ==
    Converted =>
        LET r == iter.rounded
            index == IndexOfName(iter.note.Name)
        IN  /\ iter.note.Name \in Range(noteNames)
            /\ index = (((r + 9) % 12) + 12) % 12
            /\ iter.note.Octave = 4 + ((r + 9) \div 12)
            /\ 12 * (iter.note.Octave - 4) + index - 9 = r
            /\ (r = 0 => (iter.note.Name = "A" /\ iter.note.Octave = 4))
            /\ (r = 1 => (iter.note.Name = "A#" /\ iter.note.Octave = 4))
            /\ (r = -12 => (iter.note.Name = "A" /\ iter.note.Octave = 3))
            /\ (iter.frequency = 22000 => (iter.note.Name = "A" /\ iter.note.Octave = 3))

\* a frequency more than an octave below C4 has been converted
C11_LowNoteConverted ==
    Converted /\ iter.rounded < -21 /\ (iter.rounded + 9) % 12 # 0

\* C12: for every positive frequency the cents are 100 * (semitones -
\* round(semitones)) and lie within [-50, +50]; between two adjacent
\* semitone centres they grow with the frequency, and they drop only at the
\* half-semitone boundary, from +50 to -50 (in whole cents rounded down: from
\* 49 to -50), where the note moves up by one semitone.
C12_CentsWithinHalfSemitone ==
    Converted =>
        /\ iter.note.Cents \in -50..50
        /\ iter.above.Cents \in -50..50
        /\ iter.note.Cents = Semitones(iter.frequency) - 100 * iter.rounded
        /\ iter.roundedAbove \in {iter.rounded, iter.rounded + 1}
        /\ (iter.roundedAbove = iter.rounded) => (iter.above.Cents >= iter.note.Cents)
        /\ (iter.above.Cents < iter.note.Cents) => (iter.roundedAbove = iter.rounded + 1)
        /\ (iter.step = 1 /\ iter.roundedAbove # iter.rounded)
               => (iter.note.Cents = 49 /\ iter.above.Cents = -50)

\* two frequencies 0.01 Hz apart on the two sides of a half-semitone boundary
C12_BoundaryCrossed ==
    Converted /\ iter.step = 1 /\ iter.roundedAbove = iter.rounded + 1

Extracted == "outcome" \in DOMAIN iter /\ iter.outcome = "extract"

\* C13: when several candidate peaks share the greatest magnitude, the peak
\* search returns the frequency of the one with the lowest bin, however
\* many candidates there are.
C13_TieGoesToLowestBin ==
    (Extracted /\ iter.peaks # {})
        => \E p \in TopPeaks(iter.peaks) :
              /\ \A q \in TopPeaks(iter.peaks) : p.Bin <= q.Bin
              /\ iter.frequency = p.Frequency

\* C14: for every spectrum length N and sample rate the peak search reads
\* only bins within [1, N/2 - 1]: the low bound is at least 1, the high
\* bound at most N/2 - 1, bin 0 is never read and no index outside the lower
\* half is touched, also when the low bound ends above the high bound.
C14_ReadsOnlyHalfSpectrumBins ==
    Extracted =>
        /\ iter.minBin >= 1
        /\ iter.maxBin <= (iter.n \div 2) - 1
        /\ iter.read \subseteq 1..((iter.n \div 2) - 1)
        /\ 0 \notin iter.read
        /\ (iter.minBin > iter.maxBin) => (iter.read = {})

\* both bounds were clamped and the bins at both ends were read
C14_BothBoundsClamped ==
    /\ Extracted
    /\ (minFrequency * iter.n) \div (iter.rate * 100) < 1
    /\ (maxFrequency * iter.n) \div (iter.rate * 100) >= iter.n \div 2
    /\ {1, (iter.n \div 2) - 1} \subseteq iter.read
    /\ iter.n \div 2 > 3
    /\ iter.peaks # {}

FrameFailed == iter.outcome \in {"error", "short"}

\* the latest main sleeps 10 ms after every pass that got no usable frame
LatestLoopBacksOff == FrameFailed => iter.slept

\* C15: every pass of the detection loop in which GetBuffer returns an
\* error or a frame of fewer than 512 samples sleeps before the next
\* attempt: no path goes back to the head of the loop without a sleep.
C15_FailedFrameSleeps == FrameFailed => iter.slept

\* C16: the detection loop can be stopped: it looks at a cancellation
\* signal on every pass, and once the UI has quit or the capture is being
\* stopped, a pass that starts afterwards measures no frame and sends no
\* event.
C16_NoEventAfterCancel == iter.cancelled => (~iter.measured /\ iter.sends = 0)

InProcessAudio == pc.cb \in {"alloc", "write"}

InGetBufferCopy == pc.gb \in {"alloc", "header", "copy"}

\* C17: the callback's replacement of the latest frame and GetBuffer's copy
\* never overlap; the mutex is not held once GetBuffer has returned; and
\* the buffer GetBuffer returned is a struct and an array of its own, holds
\* exactly the samples the most recent callback stored, and is not changed
\* by any later callback.
C17_CopyUnderMutexIsIndependent ==
    /\ ~(InProcessAudio /\ InGetBufferCopy)
    /\ (pc.gb \in {"idle", "lock"}) => (bufferMutex # "GetBuffer")
    /\ (pc.got # 0) =>
           /\ pc.got # bufferRef
           /\ heap.structs[pc.got].Samples # heap.structs[bufferRef].Samples
           /\ pc.snapshot = pc.expected
           /\ SamplesOf(heap, pc.got) = pc.snapshot

\* GetBuffer has returned a frame and a callback has since stored another
C17_CallbackAfterReturn ==
    /\ pc.got # 0
    /\ pc.gb = "idle"
    /\ pc.later
    /\ pc.snapshot # <<>>
    /\ pc.stored # pc.snapshot

\* C18: a note that has been put on display stays on display for at least
\* 500 ms, also when a Note of another name and octave is computed in that
\* time.
C18_ShownNoteKeptFor500ms == ~hist.replacedEarly

\* C19: two consecutive Level events are more than 200 ms apart, and a pass
\* on which a Level is due sends it, with the RMS and dB of the frame of that
\* pass, whether the frame is then taken for silence, held back for the
\* onset to settle, or gives a Note.
C19_LevelsMoreThan200msApart ==
    /\ ~hist.levelTooSoon
    /\ Len(iter.levels) <= 1
    /\ (iter.measured /\ iter.levelDue)
           => (iter.levels = <<UpdateAudioLevelMsg(iter.frame.rms, iter.frame.db)>>)
    /\ (iter.levels # <<>>) => (iter.measured /\ iter.levelDue)

\* a second Level has gone out on a pass that gave a Note
C19_SecondLevelWithNote ==
    iter.levelAgain /\ iter.outcome = "note"

\* C20: for both capturers and every sequence of Start, Stop and GetBuffer:
\* Start while capturing returns an error and changes nothing, Stop and
\* GetBuffer while not capturing return an error and change nothing, and
\* IsCapturing is true exactly from a Start that succeeded until the next
\* Stop that succeeds.
C20_CallsOutOfStateAreRefused ==
    /\ ("refused" \in DOMAIN iter /\ iter.refused) => (iter.err /\ ~iter.changed)
    /\ "expected" \in DOMAIN iter => isCapturing = iter.expected

\* every call has been refused once: a second Start, then after a Stop a
\* GetBuffer on the stopped PortAudio capturer
C20_GetBufferAfterStop ==
    /\ "refused" \in DOMAIN iter
    /\ iter.capturer = "PortAudioCapturer"
    /\ iter.outcome = "GetBuffer"
    /\ iter.refused
    /\ iter.stream = "closed"
    /\ iter.calls = MaxCalls


Detections == IF "results" \in DOMAIN iter THEN iter.results ELSE <<>>

\* C21: FFTDetector.DetectPitch depends on the frame alone: a call leaves
\* the detector's fields and the frame's samples as they were (the window is
\* written to a copy), so every call on one frame returns what the first
\* returned, the same Note or the same error.
C21_SameFrameSameResult ==
    (Detections # <<>>) =>
        /\ iter.detector = NewFFTDetector(bufferSize)
        /\ FrameAt(heap, iter.frame) = iter.given
        /\ \A i \in DOMAIN iter.results :
               /\ iter.results[i] = iter.results[1]
               /\ iter.results[i] = FFTDetectPitch(iter.given)

\* a frame has given a Note twice
C21_NoteTwice ==
    /\ Len(Detections) = MaxDetects
    /\ Detections[1].ok
    /\ Detections[MaxDetects].ok


\* C22: when the greatest magnitude of the bins minBin..maxBin is at least
\* the noise floor, the candidates are the bins of minBin+1..maxBin-1 whose
\* magnitude is greater than both neighbours' and greater than peakThreshold
\* times that greatest magnitude, minBin and maxBin are never among them,
\* and the search returns the refined frequency of a candidate of the
\* greatest magnitude (of 440 Hz when there is no candidate).
C22_GreatestInteriorPeakWins ==
    Extracted =>
        LET top == Max({Magnitude(iter.spectrum, i) : i \in iter.minBin..iter.maxBin}
                       \cup {0})
            candidates ==
                {i \in (iter.minBin + 1)..(iter.maxBin - 1) :
                    /\ Magnitude(iter.spectrum, i) > Magnitude(iter.spectrum, i - 1)
                    /\ Magnitude(iter.spectrum, i) > Magnitude(iter.spectrum, i + 1)
                    /\ Magnitude(iter.spectrum, i) * 100 > top * peakThresholdPct}
        IN  top >= noiseFloor =>
                /\ {p.Bin : p \in iter.peaks} = candidates
                /\ \A p \in iter.peaks : p.Bin \notin {iter.minBin, iter.maxBin}
                /\ candidates = {} => iter.frequency = defaultFrequency
                /\ candidates # {} =>
                       \E p \in iter.peaks :
                          /\ \A i \in candidates :
                                Magnitude(iter.spectrum, i) <= Magnitude(iter.spectrum, p.Bin)
                          /\ p = PeakAt(iter.spectrum, p.Bin, iter.n, iter.rate)
                          /\ iter.frequency = p.Frequency

\* the greatest magnitude sits at minBin alone, and the search returns an
\* interior bin of a smaller magnitude
C22_EdgeMaximumPassedOver ==
    /\ Extracted
    /\ \A i \in (iter.minBin + 1)..iter.maxBin :
          Magnitude(iter.spectrum, i) < Magnitude(iter.spectrum, iter.minBin)
    /\ iter.peaks # {}
    /\ iter.frequency # defaultFrequency


\* C24: for every candidate peak (a bin greater than both its neighbours,
\* which are not negative) the denominator prev - 2*current + next is below
\* zero, so the branch for a zero denominator is never taken, and the offset
\* 0.5 * (prev - next) / denominator is within less than half a bin: the
\* refined frequency is within half a bin width of the bin's own frequency.
C24_OffsetUnderHalfBin ==
    Extracted =>
        \A p \in iter.peaks :
            LET prev == Magnitude(iter.spectrum, p.Bin - 1)
                current == Magnitude(iter.spectrum, p.Bin)
                next == Magnitude(iter.spectrum, p.Bin + 1)
                denom == prev - 2 * current + next
                binSizeHz == (iter.rate * 100) \div iter.n
                binFreq == (p.Bin * iter.rate * 100) \div iter.n
            IN  /\ prev >= 0 /\ next >= 0
                /\ denom < 0
                /\ Abs(prev - next) < -denom
                /\ 2 * Abs(p.Frequency - binFreq) <= binSizeHz
                /\ (prev = next) <=> (p.Frequency = binFreq)

\* the search has returned a peak that the interpolation moved off its bin
C24_PeakMovedOffItsBin ==
    /\ Extracted
    /\ \E p \in iter.peaks :
          /\ iter.frequency = p.Frequency
          /\ Magnitude(iter.spectrum, p.Bin - 1) > Magnitude(iter.spectrum, p.Bin + 1)
          /\ Magnitude(iter.spectrum, p.Bin + 1) > 0
          /\ p.Frequency < (p.Bin * iter.rate * 100) \div iter.n


\* C23: after every pass of the detection loop that measures a frame
\* (whether the frame starts a rise, is held back for settling, is taken for
\* silence or goes to pitch detection) lastDB is that frame's dB, so the
\* onset comparison is always made with the frame measured just before; a
\* pass that gets no frame or a frame too short leaves lastDB as it was.
C23_LastDbIsLastMeasuredFrame ==
    /\ [](iter.measured => lastDB = iter.db)
    /\ [](lastDB = hist.prevDb)
    /\ [][~iter'.measured => lastDB' = lastDB]_vars

\* a frame has started a rise and its dB is in lastDB
C23_RiseFrameRecorded ==
    /\ iter.outcome = "rise"
    /\ lastDB = iter.db
    /\ lastDB # initialDb
    /\ isVolumeRising


\* C25: every Note FFTDetector.DetectPitch returns has its Frequency within
\* [minFrequency, maxFrequency], 80 Hz to 1200 Hz: when the peak search
\* gives a frequency outside the band, DetectPitch returns
\* ErrVolumeThreshold and no Note.
C25_NoteFrequencyInBand ==
    (iter.outcome = "call" /\ iter.detector = "FFTDetector") =>
        /\ iter.result.ok =>
               /\ iter.result.note.Frequency >= 8000
               /\ iter.result.note.Frequency <= 120000
               /\ iter.result.note # NoNote
        /\ (~IsEmpty(buffer) /\ ~GateRejects(buffer)) =>
               \A f \in FundamentalFrequencies(buffer.spectrum, NumSamples(buffer),
                                               buffer.SampleRate) :
                  (f < 8000 \/ f > 120000) => iter.result = Rejected(ErrVolumeThreshold)

\* a frame loud enough whose peak resolves to less than 80 Hz was rejected
C25_PeakBelowBandRejected ==
    /\ iter.outcome = "call" /\ iter.detector = "FFTDetector"
    /\ ~IsEmpty(buffer) /\ ~GateRejects(buffer)
    /\ BandPeaks(buffer.spectrum, NumSamples(buffer), buffer.SampleRate) # {}
    /\ findFundamentalFrequency(buffer.spectrum, NumSamples(buffer),
                                buffer.SampleRate) < 8000
    /\ iter.result = Rejected(ErrVolumeThreshold)


\* C26: in every sequence of Start and Stop calls on a PortAudioCapturer,
\* whenever Start opens a stream the PortAudio library is initialised:
\* Initialize has been called more recently than Terminate.
C26_StreamOpenedWithLibraryInitialised ==
    ("opened" \in DOMAIN iter /\ iter.outcome = "Start" /\ iter.opened)
        => iter.libraryAtOpen > 0


Updated == "before" \in DOMAIN iter /\ iter.outcome = "update"

\* C27: over every sequence of UI messages the timeline holds at most 50
\* entries; an entry is appended only by a Note whose name and octave
\* differ from the current note's or that comes when there is no current
\* note; beyond the limit the oldest entries go and the rest keep their
\* order; Clear, Level, key, resize and tick messages leave the timeline as
\* it is.
C27_TimelineBoundedAndOrdered ==
    /\ Len(model.timeline) <= 50
    /\ Updated =>
          LET old == iter.before.timeline
              new == model.timeline
              current == iter.before.currentNote
              appends ==
                  /\ iter.msg.type = "UpdateNoteMsg"
                  /\ \/ current = NoNote
                     \/ iter.msg.note.Name # current.Name
                     \/ iter.msg.note.Octave # current.Octave
          IN  /\ ~appends => new = old
              /\ (appends /\ Len(old) < 50) => new = Append(old, iter.msg.note)
              /\ (appends /\ Len(old) = 50) =>
                     new = Append(SubSeq(old, 2, 50), iter.msg.note)

\* a Note has gone into a full timeline and the oldest entry has left it
C27_OldestEntryDropped ==
    /\ Updated
    /\ iter.msg.type = "UpdateNoteMsg"
    /\ Len(iter.before.timeline) = 50
    /\ Len(model.timeline) = 50
    /\ model.timeline[1] = iter.before.timeline[2]
    /\ model.timeline[1] # iter.before.timeline[1]
    /\ model.timeline[50] = iter.msg.note

\* C28: in every state of the UI model isSilence is true exactly when there
\* is no current note: so NewModel starts, a Note sets the current note
\* and clears isSilence, a Clear removes the current note and sets
\* isSilence, and key, resize, tick and Level messages change neither.
C28_SilenceIffNoCurrentNote ==
    /\ model.isSilence <=> (model.currentNote = NoNote)
    /\ NewModel.isSilence /\ NewModel.currentNote = NoNote
    /\ Updated =>
          /\ iter.msg.type = "UpdateNoteMsg"
                => (model.currentNote = iter.msg.note /\ ~model.isSilence)
          /\ iter.msg.type = "ClearNoteMsg"
                => (model.currentNote = NoNote /\ model.isSilence)
          /\ iter.msg.type \notin {"UpdateNoteMsg", "ClearNoteMsg"}
                => /\ model.currentNote = iter.before.currentNote
                   /\ model.isSilence = iter.before.isSilence

\* a Note has been handled after a Clear, with a key in between
C28_NoteAfterClear ==
    /\ Updated
    /\ iter.handled = 3
    /\ iter.msg.type = "UpdateNoteMsg"
    /\ iter.before.isSilence
    /\ iter.before.currentNote = NoNote
    /\ ~iter.before.showDebug
    /\ iter.before.timeline # <<>>
    /\ ~model.isSilence

====
